---- MODULE Spec2Model ----
(***************************************************************************)
(* Market-data feed handler: the client's seqlock symbol cache             *)
(* (common/cache), the binary stream parser (client/parser over            *)
(* common/protocol) and the latency ring (common/latency_tracker).         *)
(*                                                                         *)
(* Each component has its own specification (SpecCache, SpecParser,        *)
(* SpecLatency); the variables of the other components stay as             *)
(* constructed.                                                            *)
(***************************************************************************)
EXTENDS Integers, Sequences, FiniteSets, TLC

VARIABLES
    \* ---- SymbolCache (common/cache.h, common/cache.cpp)
    states_,        \* std::vector<MarketState>, indexed 0 .. num_symbols_-1
    steady_clock,   \* std::chrono::steady_clock, read by every update
    writer,         \* the single writer thread: its position in update_*
    readers,        \* the reader threads: their position in get_*
    joined,         \* the writer thread has been joined
    nwrites,        \* history: completed update_* calls per symbol
    committed,      \* history: the field states at construction and after each completed update
    quoteOnly,      \* the writer only issues update_quote(id, k, k, k+0.5, k)
    \* ---- BinaryParser (client/parser.h, client/parser.cpp)
    buffer_,             \* the first buffer_pos_ bytes of the fragmentation buffer
    buffer_pos_,
    generic_handler_,    \* TRUE once set_generic_handler has installed a handler
    messages_parsed_,
    sequence_gaps_,
    checksum_errors_,
    malformed_messages_,
    fragmented_messages_,
    last_seq_num_,       \* uint32_t, as its four little-endian bytes
    handled,             \* history: the typed views the handler was invoked with, in order
    sent,                \* environment: the wire items of the TCP stream, in order
    fed,                 \* environment: bytes of the stream passed to parse so far
    resets,              \* history: how many times reset() has been called
    parsed,              \* history: the last call of parse: its len, what it returned, the most bytes it buffered
    \* ---- LatencyTracker (common/latency_tracker.h, common/latency_tracker.cpp)
    max_samples,         \* the constructor's argument
    max_samples_,
    index_mask_,
    write_idx_,
    samples_,            \* std::vector<uint64_t>, indexed 0 .. max_samples_-1; each sample its eight little-endian bytes
    exported,            \* history: the last call of export_to_csv, what it wrote and returned
    histogram_,          \* std::vector<std::atomic<uint64_t>>: the buckets in 0 .. NUM_BUCKETS-1 with a count other than 0
    recorders,           \* the threads calling record: their position in it
    stats_reader,        \* the thread calling get_stats: its position in it
    recorded,            \* history: record calls begun since construction or the last reset()
    nrecords,            \* history: record calls begun in all
    tracker_resets,      \* history: how many times the tracker's reset() has been called
    \* ---- ClientManager (server/client_manager.h, server/client_manager.cpp)
    clients_,            \* std::unordered_map<int, ClientInfo>
    subscriptions_,      \* std::unordered_map<int, std::unordered_set<uint16_t>>
    registry_call,       \* history: the last call on the registry and the maps it found
    registry_calls,      \* history: how many calls the registry has served
    \* ---- ExchangeSimulator (server/exchange_simulator.h, server/exchange_simulator.cpp)
    running_,            \* std::atomic<bool>
    tick_rate_,          \* std::atomic<uint32_t>
    fault_injection_enabled_,   \* std::atomic<bool>
    symbols_,            \* std::vector<SymbolState>: the seq_num of each symbol
    client_fds_,         \* std::vector<int>
    client_subscriptions_,      \* std::unordered_map<int, std::unordered_set<uint16_t>>
    tick_thread_,        \* the thread running tick_generation_loop, with its locals
    tick_rate_mutex_,    \* who holds the mutex
    tick_rate_cv_,       \* whether the tick thread is blocked in the condition variable
    control,             \* the thread calling start, set_tick_rate, stop, ...
    conns,               \* the client connections and the sockets the kernel keeps for them
    emitted,             \* history: the messages handed to broadcast_message, in order
    broadcast,           \* history: what the broadcast in progress (or the last one) did
    event_loop,          \* the thread in run(): its position, the events epoll_wait returned, its closes
    \* ---- MarketDataSocket (client/socket.h, client/socket.cpp)
    sockfd_,             \* int: -1, or the descriptor of the socket
    connected_,          \* std::atomic<bool>
    peer,                \* environment: what the kernel holds for the socket (bytes queued, end of stream, error)
    socket_call          \* history: the last call on the socket, what recv returned in it and what it found

cacheVars == <<states_, steady_clock, writer, readers, joined, nwrites, committed, quoteOnly>>

parserVars == <<buffer_, buffer_pos_, generic_handler_, messages_parsed_, sequence_gaps_,
                checksum_errors_, malformed_messages_, fragmented_messages_, last_seq_num_,
                handled, sent, fed, resets, parsed>>

latencyVars == <<max_samples, max_samples_, index_mask_, write_idx_, samples_, histogram_, exported,
                 recorders, stats_reader, recorded, nrecords, tracker_resets>>

registryVars == <<clients_, subscriptions_, registry_call, registry_calls>>

tickVars ==
    <<running_, tick_rate_, fault_injection_enabled_, symbols_, tick_thread_,
      tick_rate_mutex_, tick_rate_cv_, control, emitted>>

netVars == <<client_fds_, client_subscriptions_, conns, broadcast>>

serverVars == <<tickVars, netVars, event_loop>>

socketVars == <<sockfd_, connected_, peer, socket_call>>

\* The components other than the server.
clientSideVars == <<cacheVars, parserVars, latencyVars, registryVars, socketVars>>

vars == <<cacheVars, parserVars, latencyVars, registryVars, serverVars, socketVars>>

--------------------------------------------------------------------------
(* Bounds *)

NumSymbols == 1     \* num_symbols passed to the SymbolCache constructor
MaxUpdates == 2     \* update_* calls the writer issues
MaxMsgs    == 2     \* wire messages in the stream the parser is fed
MaxChunk   == 2     \* parse is called with 1 .. MaxChunk bytes, or with all the rest
MaxResets  == 1     \* reset() calls on the parser
MaxSamples == 3     \* the LatencyTracker constructor is given 0 .. MaxSamples
MaxRecords == 3     \* record calls on the tracker
MaxTrackerResets == 1   \* reset() calls on the tracker
MaxFd == 2          \* socket descriptors are 1 .. MaxFd
MaxSymbolId == 1    \* symbol ids passed to the registry are 0 .. MaxSymbolId
MaxRegistryCalls == 4   \* calls on the registry
ServerSymbols == 2  \* num_symbols_ of the simulator
MaxTicks == 2       \* messages the tick engine emits
MaxRateCalls == 1   \* set_tick_rate() calls
MaxStops == 2       \* stop() calls
MaxSubscribes == 1  \* subscription messages of one client
MaxSends == 2       \* messages a client sends as raw bytes
MaxQueued == 2      \* bytes the kernel holds for the client socket
MaxLen == 2         \* max_len of a receive call

--------------------------------------------------------------------------
(* SymbolCache *)

Fields == <<"best_bid", "best_ask", "bid_quantity", "ask_quantity",
            "last_traded_price", "last_traded_quantity",
            "last_update_time", "update_count">>

\* MarketState(): every field and the sequence are zero.
MarketState ==
    [sequence |-> 0, best_bid |-> 0, best_ask |-> 0, bid_quantity |-> 0,
     ask_quantity |-> 0, last_traded_price |-> 0, last_traded_quantity |-> 0,
     last_update_time |-> 0, update_count |-> 0]

\* MarketSnapshot snapshot{}: value-initialized, all zero.
MarketSnapshot ==
    [best_bid |-> 0, best_ask |-> 0, bid_quantity |-> 0, ask_quantity |-> 0,
     last_traded_price |-> 0, last_traded_quantity |-> 0,
     last_update_time |-> 0, update_count |-> 0]

\* The user-visible fields of a MarketState (all but the sequence).
FieldsOf(st) == [f \in DOMAIN MarketSnapshot |-> st[f]]

SymbolIds == 0 .. NumSymbols        \* uint16_t arguments tried; NumSymbols is out of range

\* Mutant: the range check off by one.
is_valid_symbol_inclusive(symbol_id) == symbol_id <= NumSymbols

is_valid_symbol(symbol_id) == symbol_id < NumSymbols

\* Prices are doubles the cache only copies: a price 2k stands for k and
\* 2k+1 for k + 0.5.
Price(k) == 2 * k
PriceHalf(k) == 2 * k + 1

\* The plain stores of each mutator between its two sequence stores, in
\* program order.
Put(f, v) == [f |-> f, kind |-> "val", v |-> v]
\* state.last_update_time = steady_clock::now().time_since_epoch().count();
PutNow == [f |-> "last_update_time", kind |-> "now", v |-> 0]
\* state.update_count++;
PutInc == [f |-> "update_count", kind |-> "inc", v |-> 0]

update_bid(price, quantity) ==
    << Put("best_bid", price), Put("bid_quantity", quantity),
       PutNow, PutInc >>

update_ask(price, quantity) ==
    << Put("best_ask", price), Put("ask_quantity", quantity),
       PutNow, PutInc >>

\* Mutant: update_trade forgets update_count++.
update_trade_no_count(price, quantity) ==
    << Put("last_traded_price", price), Put("last_traded_quantity", quantity),
       PutNow >>

update_trade(price, quantity) ==
    << Put("last_traded_price", price), Put("last_traded_quantity", quantity),
       PutNow, PutInc >>

update_quote(bid_price, bid_qty, ask_price, ask_qty) ==
    << Put("best_bid", bid_price), Put("bid_quantity", bid_qty),
       Put("best_ask", ask_price), Put("ask_quantity", ask_qty),
       PutNow, PutInc >>

WriterOps == {"update_bid", "update_ask", "update_trade", "update_quote"}

Stores(op, a) ==
    CASE op = "update_bid"   -> update_bid(a[1], a[2])
      [] op = "update_ask"   -> update_ask(a[1], a[2])
      [] op = "update_trade" -> update_trade(a[1], a[2])
      [] op = "update_quote" -> update_quote(a[1], a[2], a[3], a[4])

\* Arguments the writer passes on its k-th call, as the tests do
\* (update_bid(0, 100.0 + i, 1000 + i), update_quote(0, i, i, i + 0.5, i)).
ArgsOf(op, k) ==
    IF op = "update_quote"
    THEN <<Price(k), k, PriceHalf(k), k>>
    ELSE <<Price(k), k>>

WriterIdle == [pc |-> "idle", op |-> "none", sym |-> 0, args |-> <<>>, seq |-> 0, n |-> 0, calls |-> 0]

\* update_*: entry.  `if (!is_valid_symbol(symbol_id)) return;`
WriterCall(op, id) ==
    /\ writer.pc = "idle"
    /\ ~joined
    /\ writer.calls < MaxUpdates
    /\ quoteOnly => op = "update_quote"
    /\ writer' = [pc    |-> IF is_valid_symbol(id) THEN "load" ELSE "idle",
                   op    |-> op,
                   sym   |-> id,
                   args  |-> ArgsOf(op, writer.calls + 1),
                   seq   |-> 0,
                   n     |-> 0,
                   calls |-> writer.calls + 1]
    /\ UNCHANGED <<states_, steady_clock, readers, joined, nwrites, committed, quoteOnly, parserVars, latencyVars, registryVars, serverVars, socketVars>>

\* uint64_t seq = state.sequence.load(relaxed);
WriterLoadSeq ==
    /\ writer.pc = "load"
    /\ writer' = [writer EXCEPT !.pc = "store_odd", !.seq = states_[writer.sym].sequence]
    /\ UNCHANGED <<states_, steady_clock, readers, joined, nwrites, committed, quoteOnly, parserVars, latencyVars, registryVars, serverVars, socketVars>>

\* Mutant: the first store leaves the sequence even.
WriterStoreOddSkipped ==
    /\ writer.pc = "store_odd"
    /\ states_' = [states_ EXCEPT ![writer.sym].sequence = writer.seq + 2]
    /\ writer' = [writer EXCEPT !.pc = "write", !.n = 1]
    /\ UNCHANGED <<steady_clock, readers, joined, nwrites, committed, quoteOnly, parserVars, latencyVars, registryVars, serverVars, socketVars>>

\* state.sequence.store(seq + 1, release);
WriterStoreOdd ==
    /\ writer.pc = "store_odd"
    /\ states_' = [states_ EXCEPT ![writer.sym].sequence = writer.seq + 1]
    /\ writer' = [writer EXCEPT !.pc = "write", !.n = 1]
    /\ UNCHANGED <<steady_clock, readers, joined, nwrites, committed, quoteOnly, parserVars, latencyVars, registryVars, serverVars, socketVars>>

\* One plain store of the mutator's body.
WriterStoreField ==
    /\ writer.pc = "write"
    /\ LET body == Stores(writer.op, writer.args)
           n    == writer.n
           st   == body[n]
           val  == CASE st.kind = "now" -> steady_clock
                     [] st.kind = "inc" -> states_[writer.sym].update_count + 1
                     [] OTHER           -> st.v
       IN /\ states_' = [states_ EXCEPT ![writer.sym][st.f] = val]
          /\ steady_clock' = IF st.kind = "now" THEN steady_clock + 1 ELSE steady_clock
          /\ writer' = IF n = Len(body)
                       THEN [writer EXCEPT !.pc = "store_even", !.n = 0]
                       ELSE [writer EXCEPT !.n = n + 1]
    /\ UNCHANGED <<readers, joined, nwrites, committed, quoteOnly, parserVars, latencyVars, registryVars, serverVars, socketVars>>

\* state.sequence.store(seq + 2, release); return.
WriterStoreEven ==
    /\ writer.pc = "store_even"
    /\ states_' = [states_ EXCEPT ![writer.sym].sequence = writer.seq + 2]
    /\ writer' = [writer EXCEPT !.pc = "idle", !.seq = 0]
    /\ nwrites' = [nwrites EXCEPT ![writer.sym] = @ + 1]
    /\ committed' = [committed EXCEPT ![writer.sym] = @ \cup {FieldsOf(states_[writer.sym])}]
    /\ UNCHANGED <<steady_clock, readers, joined, quoteOnly, parserVars, latencyVars, registryVars, serverVars, socketVars>>

\* The writer thread is joined once its calls have returned.
WriterJoin ==
    /\ writer.pc = "idle"
    /\ ~joined
    /\ joined' = TRUE
    /\ UNCHANGED <<states_, steady_clock, writer, readers, nwrites, committed, quoteOnly, parserVars, latencyVars, registryVars, serverVars, socketVars>>

--------------------------------------------------------------------------
(* SymbolCache readers *)

ReaderOps == {"get_snapshot", "get_bid", "get_ask", "get_ltp", "get_total_updates"}

\* The plain loads each reader makes between its two sequence loads, in
\* program order.
get_snapshot == Fields
get_bid == <<"best_bid">>
get_ask == <<"best_ask">>
get_ltp == <<"last_traded_price">>
get_total_updates == <<"update_count">>

Loads(op) ==
    CASE op = "get_snapshot"      -> get_snapshot
      [] op = "get_bid"           -> get_bid
      [] op = "get_ask"           -> get_ask
      [] op = "get_ltp"           -> get_ltp
      [] op = "get_total_updates" -> get_total_updates

\* `while (seq1 & 1)`: the writer is active.
IsOdd(seq) == seq % 2 = 1

\* Mutant: the reader does not compare the two sequence loads.
RetryNever(seq1, seq2) == FALSE

\* Mutant: the comparison of the two loads is inverted, `while (seq1 == seq2)`.
RetryUnlessChanged(seq1, seq2) == seq1 = seq2

\* `while (seq1 != seq2)`: the sequence changed during the read.
Retry(seq1, seq2) == seq1 # seq2

\* The reader threads.  A reader only loads shared state, so what one reader
\* can observe does not depend on how many others run: one reader thread
\* stands for each of them.
Readers == {"r1"}

ReaderIdle ==
    [pc |-> "idle", op |-> "none", sym |-> 0, seq1 |-> 0, n |-> 0,
     snapshot |-> MarketSnapshot, value |-> 0, total |-> 0,
     afterJoin |-> FALSE, raced |-> FALSE]

\* get_*: entry.  Out-of-range ids return the zero snapshot / 0.0 at once;
\* get_total_updates starts its loop over states_.
ReaderCall(r, op, id) ==
    /\ readers[r].pc = "idle"
    /\ op = "get_total_updates" => id = 0
    /\ LET enter == IF op = "get_total_updates" THEN NumSymbols > 0 ELSE is_valid_symbol(id)
       IN readers' = [readers EXCEPT ![r] =
              [ReaderIdle EXCEPT !.pc = IF enter THEN "load1" ELSE "ret",
                                 !.op = op, !.sym = id, !.afterJoin = joined]]
    /\ UNCHANGED <<states_, steady_clock, writer, joined, nwrites, committed, quoteOnly, parserVars, latencyVars, registryVars, serverVars, socketVars>>

\* seq1 = state.sequence.load(acquire);  (first load of an attempt)
ReaderLoad1(r) ==
    /\ readers[r].pc = "load1"
    /\ LET s == states_[readers[r].sym].sequence
       IN readers' = [readers EXCEPT ![r].seq1 = s,
                                     ![r].pc = IF IsOdd(s) THEN "spin" ELSE "read",
                                     ![r].n = IF IsOdd(s) THEN 0 ELSE 1,
                                     ![r].raced = @ \/ IsOdd(s)]
    /\ UNCHANGED <<states_, steady_clock, writer, joined, nwrites, committed, quoteOnly, parserVars, latencyVars, registryVars, serverVars, socketVars>>

\* while (seq1 & 1) seq1 = state.sequence.load(acquire);
ReaderSpin(r) ==
    /\ readers[r].pc = "spin"
    /\ LET s == states_[readers[r].sym].sequence
       IN readers' = [readers EXCEPT ![r].seq1 = s,
                                     ![r].pc = IF IsOdd(s) THEN "spin" ELSE "read",
                                     ![r].n = IF IsOdd(s) THEN 0 ELSE 1]
    /\ UNCHANGED <<states_, steady_clock, writer, joined, nwrites, committed, quoteOnly, parserVars, latencyVars, registryVars, serverVars, socketVars>>

\* One plain load: get_snapshot copies a field into snapshot, the single-field
\* getters load `value`, get_total_updates loads `count`.
ReaderLoadField(r) ==
    /\ readers[r].pc = "read"
    /\ LET me   == readers[r]
           body == Loads(me.op)
           f    == body[me.n]
           v    == states_[me.sym][f]
           last == me.n = Len(body)
       IN readers' = [readers EXCEPT
              ![r].snapshot = IF me.op = "get_snapshot" THEN [@ EXCEPT ![f] = v] ELSE @,
              ![r].value = IF me.op = "get_snapshot" THEN @ ELSE v,
              ![r].pc = IF last THEN "load2" ELSE "read",
              ![r].n = IF last THEN 0 ELSE me.n + 1]
    /\ UNCHANGED <<states_, steady_clock, writer, joined, nwrites, committed, quoteOnly, parserVars, latencyVars, registryVars, serverVars, socketVars>>

\* seq2 = state.sequence.load(acquire); } while (seq1 != seq2);
\* get_total_updates then adds the count and moves to the next state.
\* The locals that every later path stores again before it reads them (seq1,
\* and the copied fields when the attempt is repeated) are dead here and are
\* kept at their initial value.
ReaderLoad2(r) ==
    /\ readers[r].pc = "load2"
    /\ LET me   == readers[r]
           seq2 == states_[me.sym].sequence
           more == me.sym + 1 < NumSymbols
       IN IF Retry(me.seq1, seq2)
          THEN readers' = [readers EXCEPT ![r].pc = "load1", ![r].seq1 = 0,
                                          ![r].snapshot = MarketSnapshot,
                                          ![r].value = 0,
                                          ![r].raced = TRUE]
          ELSE IF me.op = "get_total_updates"
               THEN readers' = [readers EXCEPT
                        ![r].total = me.total + me.value,
                        ![r].sym = IF more THEN me.sym + 1 ELSE me.sym,
                        ![r].pc = IF more THEN "load1" ELSE "ret",
                        ![r].seq1 = 0,
                        ![r].value = 0]
               ELSE readers' = [readers EXCEPT ![r].pc = "ret", ![r].seq1 = 0]
    /\ UNCHANGED <<states_, steady_clock, writer, joined, nwrites, committed, quoteOnly, parserVars, latencyVars, registryVars, serverVars, socketVars>>

\* The value a get_* call returns.
Result(me) ==
    CASE me.op = "get_snapshot"      -> me.snapshot
      [] me.op = "get_total_updates" -> me.total
      [] OTHER                       -> me.value

\* The call returns to its caller.
ReaderReturn(r) ==
    /\ readers[r].pc = "ret"
    /\ readers' = [readers EXCEPT ![r] = ReaderIdle]
    /\ UNCHANGED <<states_, steady_clock, writer, joined, nwrites, committed, quoteOnly, parserVars, latencyVars, registryVars, serverVars, socketVars>>

\* SymbolCache(num_symbols): states_(num_symbols), every MarketState zero.
CacheInit ==
    /\ states_ = [s \in 0 .. NumSymbols - 1 |-> MarketState]
    /\ steady_clock = 1
    /\ writer = WriterIdle
    /\ readers = [r \in Readers |-> ReaderIdle]
    /\ joined = FALSE
    /\ nwrites = [s \in 0 .. NumSymbols - 1 |-> 0]
    /\ committed = [s \in 0 .. NumSymbols - 1 |-> {MarketSnapshot}]

CacheNext ==
    \/ \E op \in WriterOps, id \in SymbolIds : WriterCall(op, id)
    \/ WriterLoadSeq
    \/ WriterStoreOdd
    \/ WriterStoreField
    \/ WriterStoreEven
    \/ WriterJoin
    \/ \E r \in Readers :
          \/ \E op \in ReaderOps, id \in SymbolIds : ReaderCall(r, op, id)
          \/ ReaderLoad1(r)
          \/ ReaderSpin(r)
          \/ ReaderLoadField(r)
          \/ ReaderLoad2(r)
          \/ ReaderReturn(r)

--------------------------------------------------------------------------
(* Wire protocol (common/protocol.h).  Multi-byte integers are kept as their *)
(* little-endian bytes, the form they have on the wire and in the packed     *)
(* structs; doubles are kept as the eight bytes of their bit pattern.        *)

Byte == 0 .. 255

\* The element of a one-element set.  { F(x) : x \in {e} } names the value of
\* e once, where a LET would evaluate e again at each use.
The(S) == CHOOSE x \in S : TRUE

Bit(x, i) == (x \div (2 ^ i)) % 2

\* a ^ b on bytes, bit by bit.
XorBits(a, b) ==
      ((Bit(a, 0) + Bit(b, 0)) % 2)
    + ((Bit(a, 1) + Bit(b, 1)) % 2) * 2
    + ((Bit(a, 2) + Bit(b, 2)) % 2) * 4
    + ((Bit(a, 3) + Bit(b, 3)) % 2) * 8
    + ((Bit(a, 4) + Bit(b, 4)) % 2) * 16
    + ((Bit(a, 5) + Bit(b, 5)) % 2) * 32
    + ((Bit(a, 6) + Bit(b, 6)) % 2) * 64
    + ((Bit(a, 7) + Bit(b, 7)) % 2) * 128

\* The same as a table, computed once.
XorTable == [a \in Byte |-> [b \in Byte |-> XorBits(a, b)]]

\* checksum ^= bytes[i] on one byte.
Xor8(a, b) == XorTable[a][b]

\* A uint16_t / uint32_t / uint64_t below 2^16, as little-endian bytes.
U16(n) == <<n % 256, n \div 256>>
U32(n) == <<n % 256, n \div 256, 0, 0>>
U64(n) == <<n % 256, n \div 256, 0, 0, 0, 0, 0, 0>>

\* The uint16_t a byte pair holds.
FromU16(b) == b[1] + 256 * b[2]

U32Max == <<255, 255, 255, 255>>        \* 0xFFFFFFFF

\* x + 1 in uint32_t arithmetic (wraps to 0 at 2^32).
RECURSIVE Inc(_)
Inc(b) ==
    IF b = <<>> THEN <<>>
    ELSE IF Head(b) = 255 THEN <<0>> \o Inc(Tail(b))
    ELSE <<Head(b) + 1>> \o Tail(b)

\* enum class MessageType : uint16_t
TRADE     == 1
QUOTE     == 2
HEARTBEAT == 3
SUBSCRIBE == 255

\* sizeof of the packed structs.
SizeofMessageHeader    == 16
SizeofTradeMessage     == 32
SizeofQuoteMessage     == 44
SizeofHeartbeatMessage == 20

\* calculate_checksum: XOR of the bytes, accumulated in a uint32_t (only its
\* low byte can be non-zero).
RECURSIVE XorFold(_, _, _)
XorFold(bytes, i, acc) ==
    IF i > Len(bytes) THEN acc
    ELSE The({ XorFold(bytes, i + 1, next) : next \in {Xor8(acc, bytes[i])} })

calculate_checksum(data) == <<XorFold(data, 1, 0), 0, 0, 0>>

\* Mutant: the stored checksum is not compared.
validate_checksum_always(data) == TRUE

\* validate_checksum: the trailing four bytes against the XOR of the rest.
validate_checksum(data) ==
    IF Len(data) < 4 THEN FALSE
    ELSE LET stored_checksum == SubSeq(data, Len(data) - 3, Len(data))
             calculated      == calculate_checksum(SubSeq(data, 1, Len(data) - 4))
         IN calculated = stored_checksum

\* get_message_size: 0 for every other type.
get_message_size(type) ==
    CASE type = TRADE     -> SizeofTradeMessage
      [] type = QUOTE     -> SizeofQuoteMessage
      [] type = HEARTBEAT -> SizeofHeartbeatMessage
      [] OTHER            -> 0

\* struct MessageHeader (packed): msg_type, seq_num, timestamp, symbol_id.
MessageHeader(msg_type, seq_num, timestamp, symbol_id) ==
    U16(msg_type) \o seq_num \o timestamp \o U16(symbol_id)

\* The bytes of a message struct whose checksum field holds
\* calculate_checksum of everything before it.
WithChecksum(body) == body \o calculate_checksum(body)

TradeMessage(header, price, quantity) == WithChecksum(header \o price \o quantity)

QuoteMessage(header, bid_price, bid_qty, ask_price, ask_qty) ==
    WithChecksum(header \o bid_price \o bid_qty \o ask_price \o ask_qty)

HeartbeatMessage(header) == WithChecksum(header)

\* The typed view the handler gets: the message bytes read under the packed
\* layout of TradeMessage / QuoteMessage / HeartbeatMessage.
HeaderView(data) ==
    [msg_type  |-> FromU16(SubSeq(data, 1, 2)),
     seq_num   |-> SubSeq(data, 3, 6),
     timestamp |-> SubSeq(data, 7, 14),
     symbol_id |-> FromU16(SubSeq(data, 15, 16))]

TypedView(data, type) ==
    CASE type = TRADE ->
            [type |-> "TradeMessage", header |-> HeaderView(data),
             payload |-> [price |-> SubSeq(data, 17, 24), quantity |-> SubSeq(data, 25, 28)],
             checksum |-> SubSeq(data, 29, 32)]
      [] type = QUOTE ->
            [type |-> "QuoteMessage", header |-> HeaderView(data),
             payload |-> [bid_price |-> SubSeq(data, 17, 24), bid_qty |-> SubSeq(data, 25, 28),
                          ask_price |-> SubSeq(data, 29, 36), ask_qty |-> SubSeq(data, 37, 40)],
             checksum |-> SubSeq(data, 41, 44)]
      [] type = HEARTBEAT ->
            [type |-> "HeartbeatMessage", header |-> HeaderView(data),
             payload |-> [none |-> 0],
             checksum |-> SubSeq(data, 17, 20)]

--------------------------------------------------------------------------
(* BinaryParser (client/parser.h, client/parser.cpp) *)

MAX_MESSAGE_SIZE == 1024
BUFFER_SIZE      == 65536

Min(a, b) == IF a < b THEN a ELSE b

\* The parser's members as one record, for the operators that compute a call.
ParserState ==
    [buffer_ |-> buffer_, buffer_pos_ |-> buffer_pos_,
     generic_handler_ |-> generic_handler_,
     messages_parsed_ |-> messages_parsed_, sequence_gaps_ |-> sequence_gaps_,
     checksum_errors_ |-> checksum_errors_, malformed_messages_ |-> malformed_messages_,
     fragmented_messages_ |-> fragmented_messages_, last_seq_num_ |-> last_seq_num_,
     handled |-> handled]

\* Mutant: a gap is counted on the first message too.
IsSequenceGapNoFirst(last_seq, seq_num) == seq_num # Inc(last_seq)

\* `last_seq_num_ != 0 && header->seq_num != last_seq_num_ + 1`
IsSequenceGap(last_seq, seq_num) == last_seq # U32(0) /\ seq_num # Inc(last_seq)

\* process_message: validates the checksum, checks and records the sequence
\* number, calls the handler.  [p: the parser after the call, ok: its result]
process_message(p, msg_data, type) ==
    IF ~validate_checksum(msg_data)
    THEN [p |-> [p EXCEPT !.checksum_errors_ = @ + 1], ok |-> FALSE]
    ELSE LET seq_num == SubSeq(msg_data, 3, 6)
             p1 == [p EXCEPT
                      !.sequence_gaps_ = IF IsSequenceGap(p.last_seq_num_, seq_num)
                                         THEN @ + 1 ELSE @,
                      !.last_seq_num_ = seq_num]
         IN IF ~p.generic_handler_
            THEN [p |-> p1, ok |-> FALSE]
            ELSE [p |-> [p1 EXCEPT !.handled = Append(@, TypedView(msg_data, type))],
                  ok |-> TRUE]

\* try_parse_message.  [p: the parser after the call, more: its result]
try_parse_message(p) ==
    IF p.buffer_pos_ < SizeofMessageHeader
    THEN [p |-> p, more |-> FALSE]
    ELSE LET msg_type == FromU16(SubSeq(p.buffer_, 1, 2))
             msg_size == get_message_size(msg_type)
         IN IF msg_size = 0 \/ msg_size > MAX_MESSAGE_SIZE
            THEN \* skip this byte; the caller's loop ends
                 [p |-> [p EXCEPT !.malformed_messages_ = @ + 1,
                                  !.buffer_ = Tail(@),
                                  !.buffer_pos_ = @ - 1],
                  more |-> FALSE]
            ELSE IF p.buffer_pos_ < msg_size
            THEN [p |-> [p EXCEPT !.fragmented_messages_ = @ + 1], more |-> FALSE]
            ELSE The({ [p |-> [r.p EXCEPT
                                 !.messages_parsed_ = IF r.ok THEN @ + 1 ELSE @,
                                 !.buffer_ = SubSeq(@, msg_size + 1, Len(@)),
                                 !.buffer_pos_ = @ - msg_size],
                        more |-> TRUE] :
                       r \in {process_message(p, SubSeq(p.buffer_, 1, msg_size), msg_type)} })

\* Mutant: `if` for `while`: one message is extracted per pass.
ParseMessagesOnce(p) == try_parse_message(p).p

\* while (try_parse_message()) {}
RECURSIVE ParseMessages(_)
ParseMessages(p) ==
    The({ IF r.more THEN ParseMessages(r.p) ELSE r.p : r \in {try_parse_message(p)} })

\* After the inner loop: `if (buffer_pos_ >= BUFFER_SIZE && buffer_pos_ <
\* sizeof(MessageHeader))` counts a malformed message and empties the buffer.
DropFullBuffer(p) ==
    IF p.buffer_pos_ >= BUFFER_SIZE /\ p.buffer_pos_ < SizeofMessageHeader
    THEN [p EXCEPT !.malformed_messages_ = @ + 1, !.buffer_ = <<>>, !.buffer_pos_ = 0]
    ELSE p

\* Mutant: the input is copied without regard to the space left.
ToCopyAll(space, remaining) == remaining

\* size_t to_copy = std::min(space, len - consumed);
ToCopy(space, remaining) == Min(space, remaining)

\* One pass of parse's `while (consumed < len)` loop.  [p: the parser after
\* the pass, to_copy: the bytes it copied, peak: buffer_pos_ after the copy]
ParsePass(p, data, consumed) ==
    LET space   == BUFFER_SIZE - p.buffer_pos_
        to_copy == ToCopy(space, Len(data) - consumed)
    IN The({ The({ [p |-> DropFullBuffer(p2), to_copy |-> to_copy, peak |-> p1.buffer_pos_] :
                   p2 \in {ParseMessages(p1)} }) :
             p1 \in { [p EXCEPT
                         !.buffer_ = @ \o SubSeq(data, consumed + 1, consumed + to_copy),
                         !.buffer_pos_ = @ + to_copy] } })

\* parse's `while (consumed < len)` loop, from `consumed` on.  [p: the
\* parser when the loop ends, consumed: what parse returns, peak: the largest
\* buffer_pos_ the loop has made, terminated: whether the loop ends]  A pass
\* that copies nothing and removes nothing leaves the buffer full and
\* `consumed` as it was: every later pass is the same, the loop never ends.
RECURSIVE ParseLoop(_, _, _)
ParseLoop(p, data, consumed) ==
    IF consumed >= Len(data)
    THEN [p |-> p, consumed |-> consumed, peak |-> p.buffer_pos_, terminated |-> TRUE]
    ELSE The({ IF pass.to_copy = 0 /\ pass.p.buffer_pos_ = p.buffer_pos_
               THEN [p |-> pass.p, consumed |-> consumed, peak |-> pass.peak,
                     terminated |-> FALSE]
               ELSE The({ [rest EXCEPT !.peak = IF pass.peak > @ THEN pass.peak ELSE @] :
                          rest \in {ParseLoop(pass.p, data, consumed + pass.to_copy)} }) :
               pass \in {ParsePass(p, data, consumed)} })

\* The parser after parse(data, len).
ParseFrom(p, data, consumed) == ParseLoop(p, data, consumed).p

\* The bytes of the stream, and the ones not yet passed to parse.
RECURSIVE Concat(_)
Concat(items) == IF items = <<>> THEN <<>> ELSE Head(items).bytes \o Concat(Tail(items))

Stream == Concat(sent)

\* size_t parse(const void* data, size_t len) on the next len bytes of the
\* stream: the parser after the call and what the call returns.
\* `if (len == 0) return 0;`
ParseCall(len) ==
    IF len = 0
    THEN [p |-> ParserState, consumed |-> 0, peak |-> buffer_pos_, terminated |-> TRUE]
    ELSE The({ ParseLoop(p0, data, 0) :
               p0 \in {ParserState}, data \in {SubSeq(Stream, fed + 1, fed + len)} })

\* The members of the parser when a call of parse returns.
ParserBecomes(p) ==
    /\ buffer_' = p.buffer_
    /\ buffer_pos_' = p.buffer_pos_
    /\ messages_parsed_' = p.messages_parsed_
    /\ sequence_gaps_' = p.sequence_gaps_
    /\ checksum_errors_' = p.checksum_errors_
    /\ malformed_messages_' = p.malformed_messages_
    /\ fragmented_messages_' = p.fragmented_messages_
    /\ last_seq_num_' = p.last_seq_num_
    /\ handled' = p.handled

\* parse(data, len), with or without a record of the call in `parsed`.
Parse(len, record) ==
    /\ len \in 0 .. Len(Stream) - fed
    /\ \E call \in {ParseCall(len)} :
          /\ parsed' = IF record
                       THEN [len |-> len, returned |-> call.consumed, peak |-> call.peak,
                             terminated |-> call.terminated]
                       ELSE parsed
          /\ ParserBecomes(call.p)
    /\ fed' = fed + len
    /\ UNCHANGED <<generic_handler_, sent, resets, cacheVars, latencyVars, registryVars, serverVars, socketVars>>

parse(len) == Parse(len, FALSE)

\* parse(data, len) in the runs that keep the history of the calls.
parse_call(len) == Parse(len, TRUE)

\* void reset().  The caller resets the parser when it abandons the stream:
\* the bytes not yet passed to parse are never passed.
reset ==
    /\ resets < MaxResets
    /\ buffer_pos_' = 0
    /\ buffer_' = <<>>
    /\ messages_parsed_' = 0
    /\ sequence_gaps_' = 0
    /\ checksum_errors_' = 0
    /\ malformed_messages_' = 0
    /\ last_seq_num_' = U32(0)
    /\ resets' = resets + 1
    /\ fed' = Len(Stream)
    /\ UNCHANGED <<fragmented_messages_, generic_handler_, handled, sent, parsed, cacheVars, latencyVars, registryVars, serverVars, socketVars>>

\* BinaryParser(): every member zero; no handler installed yet.
ParserConstructed ==
    /\ buffer_ = <<>>
    /\ buffer_pos_ = 0
    /\ messages_parsed_ = 0
    /\ sequence_gaps_ = 0
    /\ checksum_errors_ = 0
    /\ malformed_messages_ = 0
    /\ fragmented_messages_ = 0
    /\ last_seq_num_ = U32(0)
    /\ handled = <<>>
    /\ fed = 0
    /\ resets = 0
    /\ parsed = [len |-> 0, returned |-> 0, peak |-> 0, terminated |-> TRUE]

--------------------------------------------------------------------------
(* The streams the parser is fed *)

\* Field values of the unit tests' messages: timestamp 1234567890, and the
\* prices 1500.50 / 2450.25 / 2450.75 as the bytes of IEEE-754 doubles.
TestTimestamp == <<210, 2, 150, 73, 0, 0, 0, 0>>
Price1500_50  == <<0, 0, 0, 0, 0, 114, 151, 64>>
Price2450_25  == <<0, 0, 0, 0, 128, 36, 163, 64>>
Price2450_75  == <<0, 0, 0, 0, 128, 37, 163, 64>>

\* The messages of the unit tests' helpers, as values...
TradeValue(seq) ==
    [type |-> "TradeMessage",
     header |-> [msg_type |-> TRADE, seq_num |-> seq, timestamp |-> TestTimestamp, symbol_id |-> 10],
     payload |-> [price |-> Price1500_50, quantity |-> U32(100)]]

QuoteValue(seq) ==
    [type |-> "QuoteMessage",
     header |-> [msg_type |-> QUOTE, seq_num |-> seq, timestamp |-> TestTimestamp, symbol_id |-> 5],
     payload |-> [bid_price |-> Price2450_25, bid_qty |-> U32(1000),
                  ask_price |-> Price2450_75, ask_qty |-> U32(800)]]

HeartbeatValue(seq) ==
    [type |-> "HeartbeatMessage",
     header |-> [msg_type |-> HEARTBEAT, seq_num |-> seq, timestamp |-> TestTimestamp, symbol_id |-> 0],
     payload |-> [none |-> 0]]

\* ... and as the bytes the sender writes (create_trade_message,
\* create_quote_message: fill the struct, store the checksum, copy it out).
create_message(v) ==
    LET h == MessageHeader(v.header.msg_type, v.header.seq_num, v.header.timestamp,
                           v.header.symbol_id)
    IN CASE v.type = "TradeMessage" ->
              TradeMessage(h, v.payload.price, v.payload.quantity)
         [] v.type = "QuoteMessage" ->
              QuoteMessage(h, v.payload.bid_price, v.payload.bid_qty,
                           v.payload.ask_price, v.payload.ask_qty)
         [] v.type = "HeartbeatMessage" ->
              HeartbeatMessage(h)

\* Valid messages of the three types; their sequence numbers include 0, a
\* consecutive pair and the largest uint32_t.
ValidPool ==
    { TradeValue(U32(0)), TradeValue(U32(1)), QuoteValue(U32(2)), HeartbeatValue(U32Max) }

\* bytes with bit `pos` (0 = lowest bit of the first byte) flipped.
FlipBit(bytes, pos) ==
    [bytes EXCEPT ![(pos \div 8) + 1] = Xor8(@, 2 ^ (pos % 8))]

\* bytes with msg_type overwritten.
WithType(bytes, type) == U16(type) \o SubSeq(bytes, 3, Len(bytes))

\* A wire item: the message sent, the bytes on the wire, how they were
\* damaged ("valid": not at all) and, for a flipped bit, its position.
Item(v, bytes, kind, pos) == [value |-> v, bytes |-> bytes, kind |-> kind, pos |-> pos]

RECURSIVE SeqsUpTo(_, _)
SeqsUpTo(S, n) ==
    IF n = 0 THEN {<<>>}
    ELSE LET shorter == SeqsUpTo(S, n - 1)
         IN shorter \cup { Append(q, x) : q \in shorter, x \in S }

ValidItems == { Item(v, create_message(v), "valid", 0) : v \in ValidPool }

\* Streams of valid messages only.
ValidStreams == SeqsUpTo(ValidItems, MaxMsgs) \ {<<>>}

\* One valid message with one bit flipped, at every position.
FlippedStreams ==
    UNION { { <<Item(v, FlipBit(create_message(v), pos), "flipped", pos)>> :
                pos \in 0 .. 8 * Len(create_message(v)) - 1 } :
            v \in {TradeValue(U32(1)), QuoteValue(U32(2)), HeartbeatValue(U32Max)} }

\* A message whose msg_type is unknown (the unit test overwrites it with 0xFF),
\* then valid messages.
UnknownTypeStreams ==
    { <<Item(v, WithType(create_message(v), SUBSCRIBE), "unknown_type", 0)>> \o rest :
        v \in {TradeValue(U32(1))}, rest \in SeqsUpTo(ValidItems, MaxMsgs - 1) }

Streams == ValidStreams \cup FlippedStreams \cup UnknownTypeStreams

\* The sizes parse is called with: 1 .. MaxChunk bytes, or all the rest of
\* the stream at once.
ChunkSizes == (1 .. MaxChunk) \cup {Len(Stream) - fed}

\* A handler is installed before the first parse call; the streams of one
\* valid message are also parsed with no handler installed.
ParserInit ==
    /\ ParserConstructed
    /\ sent \in Streams
    /\ generic_handler_ \in (IF sent \in ValidStreams /\ Len(sent) = 1 THEN BOOLEAN ELSE {TRUE})

\* In the specifications of the other components the parser is idle.
ParserIdle ==
    /\ ParserConstructed
    /\ generic_handler_ = FALSE
    /\ sent = <<>>

ParserNext ==
    \/ \E len \in ChunkSizes : parse(len)
    \/ reset

\* BUFFER_SIZE + MaxChunk bytes 0xFF: more than the buffer holds, and no
\* message type at any offset.
Overflowing == [k \in 1 .. BUFFER_SIZE + MaxChunk |-> 255]

\* Streams longer than the buffer: the bytes above alone, or after a valid
\* message.
OverflowStreams ==
    { <<Item(v, Overflowing, "overflow", 0)>> : v \in {TradeValue(U32(1))} }
    \cup { <<Item(v, create_message(v), "valid", 0), Item(v, Overflowing, "overflow", 0)>> :
             v \in {TradeValue(U32(1))} }

\* The sizes parse is called with in the runs that keep the history of the
\* calls: 0 .. MaxChunk bytes or all the rest; while more than the buffer
\* holds is left, BUFFER_SIZE bytes (they fill the buffer) or all the rest.
CallSizes ==
    IF Len(Stream) - fed > BUFFER_SIZE
    THEN {BUFFER_SIZE, Len(Stream) - fed}
    ELSE (0 .. MaxChunk) \cup {Len(Stream) - fed}

ParserCallsInit ==
    /\ ParserConstructed
    /\ sent \in { q \in ValidStreams : Len(q) = 1 } \cup UnknownTypeStreams
                 \cup OverflowStreams
    /\ generic_handler_ = TRUE

ParserCallsNext ==
    \/ \E len \in CallSizes : parse_call(len)
    \/ reset

--------------------------------------------------------------------------
(* LatencyTracker *)

NUM_BUCKETS == 1000

UINT64_MAX == <<255, 255, 255, 255, 255, 255, 255, 255>>

\* uint64_t arithmetic on little-endian bytes.
\* a + b, modulo 2^64.
RECURSIVE AddBytes(_, _, _)
AddBytes(a, b, carry) ==
    IF a = <<>> THEN <<>>
    ELSE <<(Head(a) + Head(b) + carry) % 256>>
         \o AddBytes(Tail(a), Tail(b), (Head(a) + Head(b) + carry) \div 256)

Add64(a, b) == AddBytes(a, b, 0)

\* a < b
RECURSIVE Less64(_, _)
Less64(a, b) ==
    IF a = <<>> THEN FALSE
    ELSE \/ a[Len(a)] < b[Len(b)]
         \/ /\ a[Len(a)] = b[Len(b)]
            /\ Less64(SubSeq(a, 1, Len(a) - 1), SubSeq(b, 1, Len(b) - 1))

\* a / n for a size_t n that fits in a few bits.
RECURSIVE DivBytes(_, _, _)
DivBytes(a, n, rem) ==
    IF a = <<>> THEN <<>>
    ELSE DivBytes(SubSeq(a, 1, Len(a) - 1), n, (rem * 256 + a[Len(a)]) % n)
         \o <<(rem * 256 + a[Len(a)]) \div n>>

Div64(a, n) == DivBytes(a, n, 0)

\* std::min / std::max on uint64_t
Min64(a, b) == IF Less64(b, a) THEN b ELSE a
Max64(a, b) == IF Less64(a, b) THEN b ELSE a

\* std::sort
RECURSIVE Insert64(_, _)
Insert64(x, q) ==
    IF q = <<>> THEN <<x>>
    ELSE IF Less64(Head(q), x) THEN <<Head(q)>> \o Insert64(x, Tail(q))
    ELSE <<x>> \o q

\* Mutant: the copy is left in the order of the ring.
Unsorted64(q) == q

RECURSIVE Sort64(_)
Sort64(q) == IF q = <<>> THEN <<>> ELSE Insert64(Head(q), Sort64(Tail(q)))

\* size_t bit operations, on the values of this model (far below 2^64).
RECURSIVE Shr(_, _)
Shr(n, s) == IF s = 0 \/ n = 0 THEN n ELSE Shr(n \div 2, s - 1)

RECURSIVE BitOr(_, _)
BitOr(a, b) ==
    IF a = 0 THEN b
    ELSE IF b = 0 THEN a
    ELSE (IF a % 2 = 1 \/ b % 2 = 1 THEN 1 ELSE 0) + 2 * BitOr(a \div 2, b \div 2)

RECURSIVE BitAnd(_, _)
BitAnd(a, b) ==
    IF a = 0 \/ b = 0 THEN 0
    ELSE (IF a % 2 = 1 /\ b % 2 = 1 THEN 1 ELSE 0) + 2 * BitAnd(a \div 2, b \div 2)

\* n |= n >> 1; ... n |= n >> 32;
Smear(n) ==
    LET n1 == BitOr(n, Shr(n, 1))
        n2 == BitOr(n1, Shr(n1, 2))
        n4 == BitOr(n2, Shr(n2, 4))
        n8 == BitOr(n4, Shr(n4, 8))
        n16 == BitOr(n8, Shr(n8, 16))
    IN BitOr(n16, Shr(n16, 32))

\* Mutant: without `n--`.
next_power_of_2_no_decrement(n) == IF n = 0 THEN 1 ELSE Smear(n) + 1

\* next_power_of_2
next_power_of_2(n) == IF n = 0 THEN 1 ELSE Smear(n - 1) + 1

LatencyStats ==
    [min |-> U64(0), max |-> U64(0), mean |-> U64(0), p50 |-> U64(0), p95 |-> U64(0),
     p99 |-> U64(0), p999 |-> U64(0), sample_count |-> 0]

\* static_cast<size_t>(num_samples * 0.50 / 0.95 / 0.99 / 0.999): the product
\* is no whole number for the num_samples of this model (0.95 first gives one
\* at 20), so the cast is the floor of the exact product.
PercentileIndex(num_samples, permille) == (num_samples * permille) \div 1000

\* The tracker as its constructor leaves it.
LatencyTracker(requested) ==
    /\ max_samples = requested
    /\ max_samples_ = next_power_of_2(requested)
    /\ index_mask_ = next_power_of_2(requested) - 1
    /\ write_idx_ = 0
    /\ samples_ = [i \in 0 .. next_power_of_2(requested) - 1 |-> U64(0)]
    /\ histogram_ = [bucket \in {i \in 0 .. NUM_BUCKETS - 1 : FALSE} |-> 0]

RecorderThreads == {"t1", "t2"}

RecorderIdle == [pc |-> "idle", idx |-> 0, latency_ns |-> U64(0)]

StatsReaderIdle ==
    [pc |-> "idle", num_samples |-> 0, i |-> 0, min_val |-> UINT64_MAX, max_val |-> U64(0),
     sum |-> U64(0), sorted_samples |-> <<>>, stats |-> LatencyStats,
     k |-> 0, quiet |-> TRUE]

\* A record or reset() during a get_stats call.
Disturbed == IF stats_reader.pc = "idle" THEN stats_reader
             ELSE [stats_reader EXCEPT !.quiet = FALSE]

\* record: size_t idx = write_idx_.fetch_add(1) & index_mask_;
record_fetch_add(t, latency_ns) ==
    /\ recorders[t].pc = "idle"
    /\ nrecords < MaxRecords
    /\ recorders' = [recorders EXCEPT ![t] =
           [pc |-> "store", idx |-> BitAnd(write_idx_, index_mask_), latency_ns |-> latency_ns]]
    /\ write_idx_' = write_idx_ + 1
    /\ recorded' = recorded + 1
    /\ nrecords' = nrecords + 1
    /\ stats_reader' = Disturbed
    /\ UNCHANGED <<max_samples, max_samples_, index_mask_, samples_, histogram_, tracker_resets,
                   exported, cacheVars, parserVars, registryVars, serverVars, socketVars>>

\* record: samples_[idx] = latency_ns;
record_store(t) ==
    /\ recorders[t].pc = "store"
    /\ samples_' = [samples_ EXCEPT ![recorders[t].idx] = recorders[t].latency_ns]
    /\ recorders' = [recorders EXCEPT ![t] = RecorderIdle]
    /\ UNCHANGED <<max_samples, max_samples_, index_mask_, write_idx_, histogram_, stats_reader,
                   recorded, nrecords, tracker_resets, exported, cacheVars, parserVars, registryVars, serverVars, socketVars>>

\* std::min(current_idx, max_samples_)
NumSamples(current_idx) == Min(current_idx, max_samples_)

\* get_stats up to the loop: loads write_idx_; returns the zero stats when
\* there is no sample.
get_stats_load ==
    /\ stats_reader.pc = "idle"
    /\ stats_reader' =
         [StatsReaderIdle EXCEPT
            !.pc = IF NumSamples(write_idx_) = 0 THEN "ret" ELSE "scan",
            !.num_samples = NumSamples(write_idx_),
            !.stats = [LatencyStats EXCEPT !.sample_count = NumSamples(write_idx_)],
            !.k = recorded,
            !.quiet = \A t \in RecorderThreads : recorders[t].pc = "idle"]
    /\ UNCHANGED <<max_samples, max_samples_, index_mask_, write_idx_, samples_, histogram_,
                   recorders, recorded, nrecords, tracker_resets, exported, cacheVars, parserVars, registryVars, serverVars, socketVars>>

\* One iteration of the loop over samples_[0 .. num_samples-1]; after the
\* last, min, max and mean are stored.
get_stats_scan ==
    /\ stats_reader.pc = "scan"
    /\ LET me == stats_reader
           sample == samples_[me.i]
           min_val == Min64(me.min_val, sample)
           max_val == Max64(me.max_val, sample)
           sum == Add64(me.sum, sample)
       IN stats_reader' =
            IF me.i + 1 < me.num_samples
            THEN [me EXCEPT !.i = @ + 1, !.min_val = min_val, !.max_val = max_val, !.sum = sum]
            ELSE [me EXCEPT !.pc = "copy", !.i = 0,
                            !.min_val = UINT64_MAX, !.max_val = U64(0), !.sum = U64(0),
                            !.stats.min = min_val, !.stats.max = max_val,
                            !.stats.mean = Div64(sum, me.num_samples)]
    /\ UNCHANGED <<max_samples, max_samples_, index_mask_, write_idx_, samples_, histogram_,
                   recorders, recorded, nrecords, tracker_resets, exported, cacheVars, parserVars, registryVars, serverVars, socketVars>>

\* One element of the copy sorted_samples(samples_.begin(), samples_.begin() +
\* num_samples); after the last, the sort and the percentiles.
get_stats_copy ==
    /\ stats_reader.pc = "copy"
    /\ LET me == stats_reader
           copied == Append(me.sorted_samples, samples_[me.i])
           sorted_samples == Sort64(copied)
       IN stats_reader' =
            IF me.i + 1 < me.num_samples
            THEN [me EXCEPT !.i = @ + 1, !.sorted_samples = copied]
            ELSE [me EXCEPT !.pc = "ret", !.i = 0, !.sorted_samples = <<>>,
                    !.stats.p50 = sorted_samples[PercentileIndex(me.num_samples, 500) + 1],
                    !.stats.p95 = sorted_samples[PercentileIndex(me.num_samples, 950) + 1],
                    !.stats.p99 = sorted_samples[PercentileIndex(me.num_samples, 990) + 1],
                    !.stats.p999 = sorted_samples[PercentileIndex(me.num_samples, 999) + 1]]
    /\ UNCHANGED <<max_samples, max_samples_, index_mask_, write_idx_, samples_, histogram_,
                   recorders, recorded, nrecords, tracker_resets, exported, cacheVars, parserVars, registryVars, serverVars, socketVars>>

\* return stats;
get_stats_return ==
    /\ stats_reader.pc = "ret"
    /\ stats_reader' = StatsReaderIdle
    /\ UNCHANGED <<max_samples, max_samples_, index_mask_, write_idx_, samples_, histogram_,
                   recorders, recorded, nrecords, tracker_resets, exported, cacheVars, parserVars, registryVars, serverVars, socketVars>>

\* LatencyTracker::reset
LatencyTracker_reset ==
    /\ tracker_resets < MaxTrackerResets
    /\ write_idx_' = 0
    /\ histogram_' = [bucket \in {i \in DOMAIN histogram_ : FALSE} |-> 0]
    /\ recorded' = 0
    /\ tracker_resets' = tracker_resets + 1
    /\ stats_reader' = Disturbed
    /\ UNCHANGED <<max_samples, max_samples_, index_mask_, samples_, recorders, nrecords,
                   exported, cacheVars, parserVars, registryVars, serverVars, socketVars>>

\* The latencies recorded: two small ones and 2^63 ns.
LatencySamples == { U64(100), U64(201), <<0, 0, 0, 0, 0, 0, 0, 128>> }

\* export_to_csv was not called.
NotExported == [called |-> FALSE, returned |-> FALSE, rows |-> {}, held |-> 0]

\* LatencyTracker::export_to_csv: the rows `i,count` written after the
\* header, for the buckets with a count above 0; false when the file cannot
\* be opened.  held is history: the number of samples the tracker holds.
export_to_csv(is_open) ==
    /\ \A t \in RecorderThreads : recorders[t].pc = "idle"
    /\ exported' =
         [called |-> TRUE,
          returned |-> is_open,
          rows |-> IF is_open
                   THEN { <<i, histogram_[i]>> : i \in { b \in DOMAIN histogram_ : histogram_[b] > 0 } }
                   ELSE {},
          held |-> NumSamples(write_idx_)]
    /\ UNCHANGED <<max_samples, max_samples_, index_mask_, write_idx_, samples_, histogram_,
                   recorders, stats_reader, recorded, nrecords, tracker_resets,
                   cacheVars, parserVars, registryVars, serverVars, socketVars>>

LatencyThreadsIdle ==
    /\ exported = NotExported
    /\ recorders = [t \in RecorderThreads |-> RecorderIdle]
    /\ stats_reader = StatsReaderIdle
    /\ recorded = 0
    /\ nrecords = 0
    /\ tracker_resets = 0

LatencyInit ==
    /\ \E requested \in 0 .. MaxSamples : LatencyTracker(requested)
    /\ LatencyThreadsIdle

\* In the specifications of the other components the tracker is idle.
LatencyIdle == LatencyTracker(1) /\ LatencyThreadsIdle

LatencyNext ==
    \/ \E t \in RecorderThreads, latency_ns \in LatencySamples : record_fetch_add(t, latency_ns)
    \/ \E t \in RecorderThreads : record_store(t)
    \/ get_stats_load
    \/ get_stats_scan
    \/ get_stats_copy
    \/ get_stats_return
    \/ LatencyTracker_reset

--------------------------------------------------------------------------
(* ClientManager *)

Fds == 1 .. MaxFd

RegistrySymbolIds == 0 .. MaxSymbolId

\* ClientInfo{}
ClientInfo ==
    [fd |-> 0, messages_sent |-> 0, bytes_sent |-> 0, send_errors |-> 0, is_slow |-> FALSE]

\* map.erase(key)
Erase(map, key) == [k \in DOMAIN map \ {key} |-> map[k]]

\* map[key] = value
Assign(map, key, value) ==
    [k \in DOMAIN map \cup {key} |-> IF k = key THEN value ELSE map[k]]

\* Every method holds mutex_ from its first statement to its return: the
\* methods are atomic to each other.
ServedWith(op, fd, arg, bytes_sent, success) ==
    /\ registry_calls < MaxRegistryCalls
    /\ registry_calls' = registry_calls + 1
    /\ registry_call' = [op |-> op, fd |-> fd, arg |-> arg,
                         bytes_sent |-> bytes_sent, success |-> success,
                         clients_ |-> clients_, subscriptions_ |-> subscriptions_]

Served(op, fd, arg) == ServedWith(op, fd, arg, 0, FALSE)

add_client(fd) ==
    /\ Served("add_client", fd, {})
    /\ clients_' = Assign(clients_, fd, [ClientInfo EXCEPT !.fd = fd])
    /\ UNCHANGED <<subscriptions_, cacheVars, parserVars, latencyVars, serverVars, socketVars>>

\* Mutant: the subscriptions are left behind.
remove_client_only(fd) ==
    /\ Served("remove_client", fd, {})
    /\ clients_' = Erase(clients_, fd)
    /\ UNCHANGED <<subscriptions_, cacheVars, parserVars, latencyVars, serverVars, socketVars>>

remove_client(fd) ==
    /\ Served("remove_client", fd, {})
    /\ clients_' = Erase(clients_, fd)
    /\ subscriptions_' = Erase(subscriptions_, fd)
    /\ UNCHANGED <<cacheVars, parserVars, latencyVars, serverVars, socketVars>>

get_all_clients == DOMAIN clients_

mark_slow_client(fd) ==
    /\ Served("mark_slow_client", fd, {})
    /\ clients_' = IF fd \in DOMAIN clients_
                   THEN [clients_ EXCEPT ![fd].is_slow = TRUE]
                   ELSE clients_
    /\ UNCHANGED <<subscriptions_, cacheVars, parserVars, latencyVars, serverVars, socketVars>>

update_stats(fd, bytes_sent, success) ==
    /\ ServedWith("update_stats", fd, {}, bytes_sent, success)
    /\ clients_' = IF fd \notin DOMAIN clients_ THEN clients_
                   ELSE IF success
                   THEN [clients_ EXCEPT ![fd].messages_sent = @ + 1,
                                         ![fd].bytes_sent = @ + bytes_sent]
                   ELSE [clients_ EXCEPT ![fd].send_errors = @ + 1]
    /\ UNCHANGED <<subscriptions_, cacheVars, parserVars, latencyVars, serverVars, socketVars>>

get_client_info(fd) == IF fd \in DOMAIN clients_ THEN clients_[fd] ELSE ClientInfo

get_client_count == Cardinality(DOMAIN clients_)

\* Mutant: only the clients that were added can subscribe.
subscribe_known(fd, symbol_ids) ==
    /\ Served("subscribe", fd, symbol_ids)
    /\ subscriptions_' = IF fd \in DOMAIN clients_
                         THEN Assign(subscriptions_, fd, symbol_ids)
                         ELSE subscriptions_
    /\ UNCHANGED <<clients_, cacheVars, parserVars, latencyVars, serverVars, socketVars>>

\* Mutant: the ids are added to the set the fd has.
subscribe_merge(fd, symbol_ids) ==
    /\ Served("subscribe", fd, symbol_ids)
    /\ subscriptions_' = IF fd \in DOMAIN subscriptions_
                         THEN [subscriptions_ EXCEPT ![fd] = @ \cup symbol_ids]
                         ELSE Assign(subscriptions_, fd, symbol_ids)
    /\ UNCHANGED <<clients_, cacheVars, parserVars, latencyVars, serverVars, socketVars>>

subscribe(fd, symbol_ids) ==
    /\ Served("subscribe", fd, symbol_ids)
    /\ subscriptions_' = Assign(subscriptions_, fd, symbol_ids)
    /\ UNCHANGED <<clients_, cacheVars, parserVars, latencyVars, serverVars, socketVars>>

unsubscribe(fd, symbol_id) ==
    /\ Served("unsubscribe", fd, {symbol_id})
    /\ subscriptions_' = IF fd \in DOMAIN subscriptions_
                         THEN [subscriptions_ EXCEPT ![fd] = @ \ {symbol_id}]
                         ELSE subscriptions_
    /\ UNCHANGED <<clients_, cacheVars, parserVars, latencyVars, serverVars, socketVars>>

clear_subscriptions(fd) ==
    /\ Served("clear_subscriptions", fd, {})
    /\ subscriptions_' = Erase(subscriptions_, fd)
    /\ UNCHANGED <<clients_, cacheVars, parserVars, latencyVars, serverVars, socketVars>>

is_subscribed(fd, symbol_id) ==
    IF fd \notin DOMAIN subscriptions_ THEN FALSE ELSE symbol_id \in subscriptions_[fd]

get_subscription_count(fd) ==
    IF fd \notin DOMAIN subscriptions_ THEN 0 ELSE Cardinality(subscriptions_[fd])

\* The fds of the returned vector (its order is that of the hash map).
get_subscribed_clients(symbol_id) ==
    { fd \in DOMAIN subscriptions_ : symbol_id \in subscriptions_[fd] }

\* ClientManager::ClientManager
ClientManagerConstructed ==
    /\ clients_ = [fd \in {} |-> ClientInfo]
    /\ subscriptions_ = [fd \in {} |-> {}]

RegistryInit ==
    /\ ClientManagerConstructed
    /\ registry_call = [op |-> "ClientManager", fd |-> 0, arg |-> {},
                        bytes_sent |-> 0, success |-> FALSE,
                        clients_ |-> clients_, subscriptions_ |-> subscriptions_]
    /\ registry_calls = 0

\* In the specifications of the other components the registry is idle.
RegistryIdle == RegistryInit

\* The size passed to update_stats: that of a trade message.
SentSizes == {SizeofTradeMessage}

RegistryNext ==
    \/ \E fd \in Fds : add_client(fd)
    \/ \E fd \in Fds : remove_client(fd)
    \/ \E fd \in Fds : mark_slow_client(fd)
    \/ \E fd \in Fds, bytes_sent \in SentSizes, success \in BOOLEAN :
         update_stats(fd, bytes_sent, success)
    \/ \E fd \in Fds, symbol_ids \in SUBSET RegistrySymbolIds : subscribe(fd, symbol_ids)
    \/ \E fd \in Fds, symbol_id \in RegistrySymbolIds : unsubscribe(fd, symbol_id)
    \/ \E fd \in Fds : clear_subscriptions(fd)

--------------------------------------------------------------------------
(* MarketDataSocket *)

\* The descriptor socket() returns.
SocketFd == 3

\* What the kernel holds for a descriptor that is not a connected socket.
PeerIdle == [open |-> FALSE, queued |-> 0, fin |-> FALSE, err |-> FALSE]

\* recv was not called.
NotCalled == [n |-> 0, errno |-> "not called"]

\* recv(sockfd_, buffer, max_len, 0) on the non-blocking socket: a pending
\* error, else the bytes queued (at most max_len), else 0 at the end of the
\* stream, else EAGAIN.
recv(max_len) ==
    IF ~peer.open THEN [n |-> -1, errno |-> "EBADF"]
    ELSE IF peer.err THEN [n |-> -1, errno |-> "ECONNRESET"]
    ELSE IF peer.queued > 0 THEN [n |-> Min(peer.queued, max_len), errno |-> ""]
    ELSE IF peer.fin THEN [n |-> 0, errno |-> ""]
    ELSE [n |-> -1, errno |-> "EAGAIN"]

\* What the kernel holds after recv has returned r.
Received(r) == IF r.n > 0 THEN [peer EXCEPT !.queued = @ - r.n] ELSE peer

\* The history of a call: what it found and what it returned.
SocketCall(op, max_len, r, ret) ==
    [op |-> op, max_len |-> max_len, recv |-> r, ret |-> ret,
     connected_ |-> connected_, sockfd_ |-> sockfd_, peer |-> peer]

\* Mutant: EAGAIN is taken for an error.
WouldBlockNever(errno) == FALSE

\* errno == EAGAIN || errno == EWOULDBLOCK
WouldBlock(errno) == errno \in {"EAGAIN", "EWOULDBLOCK"}

\* bool connect(host, port, timeout_ms): sockfd_ = socket(...); every
\* failure closes the socket and leaves sockfd_ = -1 and connected_ as it
\* was; success ends with connected_ = true.
MarketDataSocket_connect(ok) ==
    /\ socket_call' = SocketCall("connect", 0, NotCalled, IF ok THEN 1 ELSE 0)
    /\ sockfd_' = IF ok THEN SocketFd ELSE -1
    /\ connected_' = IF ok THEN TRUE ELSE connected_
    /\ peer' = IF ok THEN [PeerIdle EXCEPT !.open = TRUE] ELSE PeerIdle
    /\ UNCHANGED <<cacheVars, parserVars, latencyVars, registryVars, serverVars>>

\* ssize_t receive(void* buffer, size_t max_len)
receive(max_len) ==
    /\ IF ~connected_ \/ sockfd_ < 0
       THEN /\ socket_call' = SocketCall("receive", max_len, NotCalled, -1)
            /\ UNCHANGED <<connected_, peer>>
       ELSE \E r \in {recv(max_len)} :
            /\ peer' = Received(r)
            /\ IF r.n = 0
               THEN /\ connected_' = FALSE
                    /\ socket_call' = SocketCall("receive", max_len, r, 0)
               ELSE IF r.n < 0
               THEN IF WouldBlock(r.errno)
                    THEN /\ socket_call' = SocketCall("receive", max_len, r, 0)
                         /\ UNCHANGED connected_
                    ELSE /\ connected_' = FALSE
                         /\ socket_call' = SocketCall("receive", max_len, r, -1)
               ELSE /\ socket_call' = SocketCall("receive", max_len, r, r.n)
                    /\ UNCHANGED connected_
    /\ UNCHANGED <<sockfd_, cacheVars, parserVars, latencyVars, registryVars, serverVars>>

\* send_subscription: the bytes of the message, 0xFF, the count and the ids
\* as little-endian uint16_t.
RECURSIVE SymbolIdBytes(_)
SymbolIdBytes(symbol_ids) ==
    IF symbol_ids = <<>> THEN <<>>
    ELSE U16(Head(symbol_ids)) \o SymbolIdBytes(Tail(symbol_ids))

SubscriptionMessage(symbol_ids) == <<255>> \o U16(Len(symbol_ids)) \o SymbolIdBytes(symbol_ids)

\* void disconnect()
disconnect ==
    /\ socket_call' = SocketCall("disconnect", 0, NotCalled, 0)
    /\ sockfd_' = -1
    /\ connected_' = FALSE
    /\ peer' = IF sockfd_ >= 0 THEN PeerIdle ELSE peer
    /\ UNCHANGED <<cacheVars, parserVars, latencyVars, registryVars, serverVars>>

\* The server sends a byte to the client.
peer_send ==
    /\ peer.open /\ ~peer.fin /\ ~peer.err
    /\ peer.queued < MaxQueued
    /\ peer' = [peer EXCEPT !.queued = @ + 1]
    /\ UNCHANGED <<sockfd_, connected_, socket_call, cacheVars, parserVars, latencyVars,
                   registryVars, serverVars>>

\* The server closes the connection: the end of the stream follows the
\* bytes queued.
peer_close ==
    /\ peer.open /\ ~peer.fin /\ ~peer.err
    /\ peer' = [peer EXCEPT !.fin = TRUE]
    /\ UNCHANGED <<sockfd_, connected_, socket_call, cacheVars, parserVars, latencyVars,
                   registryVars, serverVars>>

\* The connection is reset: the bytes queued are discarded and the error
\* is pending.
peer_reset ==
    /\ peer.open /\ ~peer.err
    /\ peer' = [peer EXCEPT !.err = TRUE, !.queued = 0]
    /\ UNCHANGED <<sockfd_, connected_, socket_call, cacheVars, parserVars, latencyVars,
                   registryVars, serverVars>>

\* MarketDataSocket(): sockfd_(-1), connected_(false)
SocketConstructed ==
    /\ sockfd_ = -1
    /\ connected_ = FALSE
    /\ peer = PeerIdle

SocketInit ==
    /\ SocketConstructed
    /\ socket_call = SocketCall("MarketDataSocket", 0, NotCalled, 0)

\* In the specifications of the other components the socket is idle.
SocketIdle == SocketInit

\* The sizes receive is called with: the caller passes the size of its
\* buffer, which is not 0.
ReceiveSizes == 1 .. MaxLen

SocketNext ==
    \/ \E ok \in BOOLEAN : MarketDataSocket_connect(ok)
    \/ \E max_len \in ReceiveSizes : receive(max_len)
    \/ disconnect
    \/ peer_send
    \/ peer_close
    \/ peer_reset

--------------------------------------------------------------------------
(* ExchangeSimulator: the tick engine and its control *)

ServerSymbolIds == 0 .. ServerSymbols - 1

U32NearMax == <<254, 255, 255, 255>>    \* 0xFFFFFFFE

\* a < b, for two unsigned values of the same width
RECURSIVE LessBytes(_, _)
LessBytes(a, b) ==
    IF a = <<>> THEN FALSE
    ELSE LET n == Len(a)
         IN IF a[n] # b[n] THEN a[n] < b[n]
            ELSE LessBytes(SubSeq(a, 1, n - 1), SubSeq(b, 1, n - 1))

\* The tick rates of the configuration and of set_tick_rate: paused, less
\* than one tick per symbol, two ticks per symbol.
TickRates == {0, 1, 2 * ServerSymbols}

Conns == {"A", "B"}

\* A connection no client has opened yet.
ConnIdle ==
    [state |-> "idle", fd |-> 0, reading |-> TRUE, closed |-> FALSE, inbox |-> <<>>,
     edge |-> FALSE, rst |-> FALSE, received |-> {}, asked |-> {}, sends |-> 0,
     buffers |-> <<>>, stream |-> <<>>]

BroadcastIdle ==
    [symbol_id |-> 0, clients |-> <<>>, skipped |-> {}, passed |-> {}, blocked |-> {},
     ok |-> {}, failed |-> {}]

TickThreadIdle ==
    [pc |-> "none", rate |-> 0, start |-> 0, i |-> 0, j |-> 0, ticks_per_symbol |-> 0,
     clients |-> <<>>, fd |-> 0, conn |-> "none", erased |-> {}]

ControlIdle == [pc |-> "idle", rate_calls |-> 0, stops |-> 0, explicit |-> 0]

\* The thread of run() before its first epoll_wait: no event in hand, and no
\* call of handle_client_disconnect made yet.
EventLoopIdle == [pc |-> "wait", events |-> {}, disconnects |-> {}]

\* The threads the tick thread can be joined by, or can race with, are alive
\* only after start(): joinable() is true from start() to join().
Joinable == tick_thread_.pc \notin {"none", "joined"}

\* Mutant: the injected gap is one number wider.
NextSeqNumWide(seq_num, inject) ==
    IF inject THEN Inc(Inc(Inc(Inc(seq_num)))) ELSE Inc(seq_num)

\* generate_tick: `symbol.seq_num += 2` when a gap is injected, then
\* constexpr uint32_t PRICE_UPDATE_INTERVAL
PRICE_UPDATE_INTERVAL == 100

\* Prices are counted in hundredths: 0.1
PriceFloor == 10

\* 100.0, the price of a symbol of the symbols file
Price100 == 10000

\* Normal draws are counted in ten-thousandths.
NormalScale == 10000

\* struct SymbolState after initialize_symbols, and the same with the
\* seq_num of a symbol that has been ticking for long.  The volatility is
\* counted in halves.
SymbolState(seq_num) ==
    [seq_num |-> seq_num, current_price |-> Price100, volatility |-> 1, drift |-> 0,
     ticks_since_price_update |-> 0]

\* std::sqrt(dt), for the values of dt that are squares
Sqrt(dt) == CHOOSE r \in 0 .. dt : r * r = dt

\* `if (new_price < 0.0)`
BelowFloor(new_price) == new_price < 0

\* TickGenerator::generate_next_price, with the value generate_normal() returns
generate_next_price(current_price, drift, volatility, dt, normal) ==
    LET drift_component == drift * current_price * dt
        diffusion_component ==
            (volatility * current_price * Sqrt(dt) * normal) \div (2 * NormalScale)
        new_price == current_price + drift_component + diffusion_component
    IN IF BelowFloor(new_price) THEN PriceFloor ELSE new_price

\* `dt = (rate > 0) ? PRICE_UPDATE_INTERVAL * num_symbols_ / rate : 0.1`, for
\* the rates above 0 that divide the product.
Dt(rate) == (PRICE_UPDATE_INTERVAL * ServerSymbols) \div rate

\* Mutant: the price is re-sampled on every invocation.
ResamplesAlways(ticks) == TRUE

\* `if (symbol.ticks_since_price_update >= PRICE_UPDATE_INTERVAL)`
Resamples(ticks) == ticks >= PRICE_UPDATE_INTERVAL

\* The values generate_normal() can return that the model computes with
\* exactly: one standard deviation down, a little less, a little more, none,
\* half of one up.
Normals == {-10005, -10000, -9995, 0, 5000}

\* The draws a call of generate_tick(symbol_id) can make for the price: none
\* unless it re-samples.
NormalDraws(symbol_id) ==
    LET symbol == symbols_[symbol_id]
    IN IF Resamples(symbol.ticks_since_price_update + 1)
       THEN { normal \in Normals :
                (symbol.volatility * symbol.current_price * Sqrt(Dt(tick_rate_)) * normal)
                    % (2 * NormalScale) = 0 }
       ELSE {0}

\* generate_tick(symbol_id): `symbol.ticks_since_price_update++` and the
\* re-sampling of the price.
Repriced(symbol, normal) ==
    LET ticks == symbol.ticks_since_price_update + 1
    IN IF Resamples(ticks)
       THEN [symbol EXCEPT
               !.current_price = generate_next_price(symbol.current_price, symbol.drift,
                                     symbol.volatility, Dt(tick_rate_), normal),
               !.ticks_since_price_update = 0]
       ELSE [symbol EXCEPT !.ticks_since_price_update = ticks]

\* `msg.header.seq_num = ++symbol.seq_num`, in uint32_t.
NextSeqNum(seq_num, inject) == IF inject THEN Inc(Inc(Inc(seq_num))) ELSE Inc(seq_num)

\* `fault_injection_enabled_ && dis_gap(gen_fault) <= 1`: the draws a call can make.
GapDraws == IF fault_injection_enabled_ THEN BOOLEAN ELSE {FALSE}

\* The part of generate_tick(symbol_id) before broadcast_message.
\* Quantities, spreads and the choice between a quote and a trade are not
\* modelled.
Stamp(symbol_id, inject, normal) ==
    LET symbol == Repriced(symbols_[symbol_id], normal)
    IN /\ symbols_' = [symbols_ EXCEPT
                         ![symbol_id] = [symbol EXCEPT !.seq_num = NextSeqNum(@, inject)]]
       /\ emitted' = Append(emitted, [symbol_id |-> symbol_id,
                                      seq_num |-> NextSeqNum(symbols_[symbol_id].seq_num, inject),
                                      previous |-> symbols_[symbol_id].seq_num,
                                      inject |-> inject,
                                      normal |-> normal,
                                      price |-> symbol.current_price,
                                      ticks |-> symbol.ticks_since_price_update])

\* The loops of tick_generation_loop after generate_tick(i) has returned.
AfterTick(t) ==
    IF t.j + 1 < t.ticks_per_symbol
    THEN [t EXCEPT !.pc = "tick", !.j = @ + 1, !.clients = <<>>, !.fd = 0]
    ELSE IF t.i + 1 < ServerSymbols
    THEN [t EXCEPT !.pc = "tick", !.i = @ + 1, !.j = 0, !.clients = <<>>, !.fd = 0]
    ELSE [t EXCEPT !.pc = "sleep", !.i = 0, !.j = 0, !.clients = <<>>, !.fd = 0]

\* `for (int fd : clients)`: the next client of the copy, or the return.
NextClient(t, clients) ==
    IF clients = <<>> THEN AfterTick(t)
    ELSE [t EXCEPT !.pc = "check", !.clients = clients, !.fd = Head(clients)]

\* while (running_)
tick_while ==
    /\ tick_thread_.pc = "while"
    /\ tick_thread_' = [tick_thread_ EXCEPT !.pc = IF running_ THEN "load" ELSE "done"]
    /\ UNCHANGED <<running_, tick_rate_, fault_injection_enabled_, symbols_,
                   tick_rate_mutex_, tick_rate_cv_, control, emitted, netVars, clientSideVars, event_loop>>

\* Mutant: the inner loop runs once more, `j <= ticks_per_symbol`.
TicksPerSymbolInclusive(rate) == rate \div ServerSymbols + 1

\* `size_t ticks_per_symbol = rate / num_symbols_;
\*  if (ticks_per_symbol == 0) ticks_per_symbol = 1;`
TicksPerSymbol(rate) ==
    IF rate \div ServerSymbols = 0 THEN 1 ELSE rate \div ServerSymbols

\* uint32_t rate = tick_rate_.load(); if (rate == 0) ...; ticks_per_symbol.
\* start is history: the number of messages generated before this cycle.
tick_load ==
    /\ tick_thread_.pc = "load"
    /\ tick_thread_' =
         IF tick_rate_ = 0 THEN [tick_thread_ EXCEPT !.pc = "lock", !.rate = 0]
         ELSE [tick_thread_ EXCEPT
                 !.pc = "tick", !.i = 0, !.j = 0,
                 !.rate = tick_rate_,
                 !.start = Len(emitted),
                 !.ticks_per_symbol = TicksPerSymbol(tick_rate_)]
    /\ UNCHANGED <<running_, tick_rate_, fault_injection_enabled_, symbols_,
                   tick_rate_mutex_, tick_rate_cv_, control, emitted, netVars, clientSideVars, event_loop>>

\* std::unique_lock<std::mutex> lock(tick_rate_mutex_), and the lock taken
\* again inside wait() after a wake-up
tick_lock ==
    /\ tick_thread_.pc = "lock"
    /\ tick_rate_mutex_ = "free"
    /\ tick_rate_mutex_' = "tick"
    /\ tick_thread_' = [tick_thread_ EXCEPT !.pc = "pred"]
    /\ UNCHANGED <<running_, tick_rate_, fault_injection_enabled_, symbols_,
                   tick_rate_cv_, control, emitted, netVars, clientSideVars, event_loop>>

\* wait(lock, pred) is `while (!pred()) wait(lock);`: the predicate
\* `!running_ || tick_rate_.load() > 0`, then `continue` (the lock is released).
tick_pred ==
    /\ tick_thread_.pc = "pred"
    /\ IF ~running_ \/ tick_rate_ > 0
       THEN /\ tick_rate_mutex_' = "free"
            /\ tick_thread_' = [tick_thread_ EXCEPT !.pc = "while"]
       ELSE /\ tick_thread_' = [tick_thread_ EXCEPT !.pc = "block"]
            /\ UNCHANGED tick_rate_mutex_
    /\ UNCHANGED <<running_, tick_rate_, fault_injection_enabled_, symbols_,
                   tick_rate_cv_, control, emitted, netVars, clientSideVars, event_loop>>

\* wait(lock): the thread releases the mutex and blocks, in one step.
tick_block ==
    /\ tick_thread_.pc = "block"
    /\ tick_rate_mutex_' = "free"
    /\ tick_rate_cv_' = TRUE
    /\ tick_thread_' = [tick_thread_ EXCEPT !.pc = "wait"]
    /\ UNCHANGED <<running_, tick_rate_, fault_injection_enabled_, symbols_,
                   control, emitted, netVars, clientSideVars, event_loop>>

\* tick_rate_cv_.notify_one(): wakes the thread when it is blocked in wait(),
\* and does nothing otherwise.
Notify ==
    IF tick_rate_cv_
    THEN /\ tick_rate_cv_' = FALSE
         /\ tick_thread_' = [tick_thread_ EXCEPT !.pc = "lock"]
    ELSE UNCHANGED <<tick_rate_cv_, tick_thread_>>

\* A condition variable may wake a thread that nobody notified.
spurious_wakeup ==
    /\ tick_rate_cv_
    /\ tick_rate_cv_' = FALSE
    /\ tick_thread_' = [tick_thread_ EXCEPT !.pc = "lock"]
    /\ UNCHANGED <<running_, tick_rate_, fault_injection_enabled_, symbols_,
                   tick_rate_mutex_, control, emitted, netVars, clientSideVars, event_loop>>

\* generate_tick(i) up to the first statement of broadcast_message,
\* `auto clients = client_fds_;`
tick_generate ==
    /\ tick_thread_.pc = "tick"
    /\ Len(emitted) < MaxTicks
    /\ \E inject \in GapDraws, normal \in NormalDraws(tick_thread_.i) :
         Stamp(tick_thread_.i, inject, normal)
    /\ broadcast' = [BroadcastIdle EXCEPT !.symbol_id = tick_thread_.i,
                                          !.clients = client_fds_]
    /\ tick_thread_' = NextClient(tick_thread_, client_fds_)
    /\ UNCHANGED <<running_, tick_rate_, fault_injection_enabled_, tick_rate_mutex_,
                   tick_rate_cv_, control, client_fds_, client_subscriptions_, conns,
                   clientSideVars, event_loop>>

\* std::this_thread::sleep_for(sleep_time)
tick_sleep ==
    /\ tick_thread_.pc = "sleep"
    /\ tick_thread_' = [tick_thread_ EXCEPT !.pc = "while"]
    /\ UNCHANGED <<running_, tick_rate_, fault_injection_enabled_, symbols_,
                   tick_rate_mutex_, tick_rate_cv_, control, emitted, netVars, clientSideVars, event_loop>>

\* void ExchangeSimulator::start(): the sockets are not modelled here.
start ==
    /\ control.pc = "idle"
    /\ tick_thread_.pc = "none"
    /\ running_' = TRUE
    /\ tick_thread_' = [tick_thread_ EXCEPT !.pc = "while"]
    /\ UNCHANGED <<tick_rate_, fault_injection_enabled_, symbols_, tick_rate_mutex_,
                   tick_rate_cv_, control, emitted, netVars, clientSideVars, event_loop>>

\* uint32_t old_rate = tick_rate_.exchange(ticks_per_second);
set_tick_rate_exchange(ticks_per_second) ==
    /\ control.pc = "idle"
    /\ control.rate_calls < MaxRateCalls
    /\ tick_rate_' = ticks_per_second
    /\ control' = [control EXCEPT
                     !.rate_calls = @ + 1,
                     !.pc = IF tick_rate_ = 0 /\ ticks_per_second > 0
                            THEN "notify" ELSE "idle"]
    /\ UNCHANGED <<running_, fault_injection_enabled_, symbols_, tick_thread_,
                   tick_rate_mutex_, tick_rate_cv_, emitted, netVars, clientSideVars, event_loop>>

\* if (old_rate == 0 && ticks_per_second > 0) tick_rate_cv_.notify_one();
set_tick_rate_notify ==
    /\ control.pc = "notify"
    /\ Notify
    /\ control' = [control EXCEPT !.pc = "idle"]
    /\ UNCHANGED <<running_, tick_rate_, fault_injection_enabled_, symbols_,
                   tick_rate_mutex_, emitted, netVars, clientSideVars, event_loop>>

enable_fault_injection(enable) ==
    /\ control.pc = "idle"
    /\ fault_injection_enabled_ # enable
    /\ fault_injection_enabled_' = enable
    /\ UNCHANGED <<running_, tick_rate_, symbols_, tick_thread_, tick_rate_mutex_,
                   tick_rate_cv_, control, emitted, netVars, clientSideVars, event_loop>>

\* stop(): running_ = false;
stop_store ==
    /\ control.pc = "idle"
    /\ control.stops < MaxStops
    /\ running_' = FALSE
    /\ control' = [control EXCEPT !.pc = "stop_notify"]
    /\ UNCHANGED <<tick_rate_, fault_injection_enabled_, symbols_, tick_thread_,
                   tick_rate_mutex_, tick_rate_cv_, emitted, netVars, clientSideVars, event_loop>>

\* stop(): tick_rate_cv_.notify_one();
stop_notify ==
    /\ control.pc = "stop_notify"
    /\ Notify
    /\ control' = [control EXCEPT !.pc = "stop_join"]
    /\ UNCHANGED <<running_, tick_rate_, fault_injection_enabled_, symbols_,
                   tick_rate_mutex_, emitted, netVars, clientSideVars, event_loop>>

\* stop(): if (tick_thread_.joinable()) tick_thread_.join(); join() returns
\* when tick_generation_loop has returned.
stop_join ==
    /\ control.pc = "stop_join"
    /\ Joinable => tick_thread_.pc = "done"
    /\ tick_thread_' = IF Joinable THEN [tick_thread_ EXCEPT !.pc = "joined"]
                       ELSE tick_thread_
    /\ control' = [control EXCEPT !.pc = "stop_close"]
    /\ UNCHANGED <<running_, tick_rate_, fault_injection_enabled_, symbols_,
                   tick_rate_mutex_, tick_rate_cv_, emitted, netVars, clientSideVars, event_loop>>

\* close(fd) for the connection that holds fd, if any
Close(cs, fd) ==
    [c \in Conns |-> IF cs[c].fd = fd /\ fd # 0
                     THEN [cs[c] EXCEPT !.fd = 0, !.state = "dropped", !.edge = FALSE]
                     ELSE cs[c]]

RECURSIVE CloseAll(_, _)
CloseAll(cs, fds) ==
    IF fds = <<>> THEN cs ELSE CloseAll(Close(cs, Head(fds)), Tail(fds))

\* stop(): for (int fd : client_fds_) close(fd); client_fds_.clear(); the
\* epoll and the listening sockets are closed.
stop_close ==
    /\ control.pc = "stop_close"
    /\ conns' = CloseAll(conns, client_fds_)
    /\ client_fds_' = <<>>
    /\ control' = [control EXCEPT !.pc = "idle", !.stops = @ + 1]
    /\ UNCHANGED <<running_, tick_rate_, fault_injection_enabled_, symbols_, tick_thread_,
                   tick_rate_mutex_, tick_rate_cv_, emitted, client_subscriptions_,
                   broadcast, clientSideVars, event_loop>>

\* generate_tick(symbol_id) called from outside the tick thread, as the
\* tests do on a simulator whose tick thread does not run and that has no
\* client: `if (symbol_id >= num_symbols_) return;`, and broadcast_message
\* finds no client.
generate_tick(symbol_id) ==
    /\ control.pc = "idle"
    /\ ~Joinable
    /\ client_fds_ = <<>>
    /\ Len(emitted) < MaxTicks
    /\ control.explicit < MaxTicks
    /\ control' = [control EXCEPT !.explicit = @ + 1]
    /\ IF symbol_id >= ServerSymbols
       THEN UNCHANGED <<symbols_, emitted, broadcast>>
       ELSE /\ \E inject \in GapDraws, normal \in NormalDraws(symbol_id) :
                 Stamp(symbol_id, inject, normal)
            /\ broadcast' = [BroadcastIdle EXCEPT !.symbol_id = symbol_id]
    /\ UNCHANGED <<running_, tick_rate_, fault_injection_enabled_, tick_thread_,
                   tick_rate_mutex_, tick_rate_cv_, client_fds_, client_subscriptions_,
                   conns, clientSideVars, event_loop>>

\* ExchangeSimulator::ExchangeSimulator and initialize_symbols: `seq_num = 0`.
\* A symbol that has been ticking for long has a seq_num near the end of uint32_t.
SimulatorConstructed ==
    /\ running_ = FALSE
    /\ fault_injection_enabled_ = FALSE
    /\ client_fds_ = <<>>
    /\ client_subscriptions_ = [fd \in {} |-> {}]
    /\ tick_thread_ = TickThreadIdle
    /\ tick_rate_mutex_ = "free"
    /\ tick_rate_cv_ = FALSE
    /\ control = ControlIdle
    /\ conns = [c \in Conns |-> ConnIdle]
    /\ emitted = <<>>
    /\ broadcast = BroadcastIdle
    /\ event_loop = EventLoopIdle

\* load_config: the tick rate of the configuration
TickInit ==
    /\ SimulatorConstructed
    /\ tick_rate_ \in TickRates
    /\ \E seq_num \in {U32(0), U32NearMax} :
         symbols_ = [id \in ServerSymbolIds |-> SymbolState(seq_num)]

\* Tick rates for which dt is 1 and 4.
PriceRates == {PRICE_UPDATE_INTERVAL * ServerSymbols, (PRICE_UPDATE_INTERVAL * ServerSymbols) \div 4}

\* Prices of a symbol: 0.1 and 100.0
Prices == {PriceFloor, Price100}

\* Drifts of the symbols file, in units, and volatilities, in halves.
Drifts == {-1, 0}

Volatilities == {0, 1}

\* A symbol that has ticked 0, 98 or 99 times since its price was sampled.
TicksBefore == {0, PRICE_UPDATE_INTERVAL - 2, PRICE_UPDATE_INTERVAL - 1}

\* The simulator constructed from a symbols file, the first symbol some
\* ticks later; its tick thread is not started and generate_tick is called from outside, as in the
\* tests.
PriceInit ==
    /\ SimulatorConstructed
    /\ tick_rate_ \in PriceRates
    /\ \E drift \in Drifts, volatility \in Volatilities, price \in Prices, ticks \in TicksBefore :
         symbols_ = [id \in ServerSymbolIds |->
                       [SymbolState(U32(0)) EXCEPT
                          !.current_price = IF id = 0 THEN price ELSE @,
                          !.drift = drift,
                          !.volatility = volatility,
                          !.ticks_since_price_update = IF id = 0 THEN ticks ELSE @]]

\* In the specifications of the other components the simulator is idle.
ServerIdle ==
    /\ SimulatorConstructed
    /\ tick_rate_ = 2 * ServerSymbols
    /\ symbols_ = [id \in ServerSymbolIds |-> SymbolState(U32(0))]

\* The steps of the tick thread that need no client.
TickThreadNext ==
    \/ tick_while
    \/ tick_load
    \/ tick_lock
    \/ tick_pred
    \/ tick_block
    \/ tick_generate
    \/ tick_sleep

\* The steps that finish a call the control thread has begun.
ControlContinue ==
    \/ set_tick_rate_notify
    \/ stop_notify
    \/ stop_join
    \/ stop_close

TickNext ==
    \/ TickThreadNext
    \/ spurious_wakeup
    \/ start
    \/ \E ticks_per_second \in TickRates : set_tick_rate_exchange(ticks_per_second)
    \/ \E enable \in BOOLEAN : enable_fault_injection(enable)
    \/ stop_store
    \/ ControlContinue
    \/ \E symbol_id \in 0 .. ServerSymbols : generate_tick(symbol_id)

--------------------------------------------------------------------------
(* ExchangeSimulator: the event loop, the broadcast and the clients *)

\* The connection whose socket in the server has descriptor fd, if any.
Holders(fd) == { c \in Conns : conns[c].fd = fd /\ fd # 0 }

\* accept() returns the lowest descriptor that is free.
LowestFreeFd == CHOOSE fd \in 1 .. Cardinality(Conns) :
                    /\ Holders(fd) = {}
                    /\ \A lower \in 1 .. fd - 1 : Holders(lower) # {}

\* client_fds_.erase(std::find(...)): the first occurrence, if any
RECURSIVE EraseFirst(_, _)
EraseFirst(fds, fd) ==
    IF fds = <<>> THEN <<>>
    ELSE IF Head(fds) = fd THEN Tail(fds)
    ELSE <<Head(fds)>> \o EraseFirst(Tail(fds), fd)

Range(q) == { q[k] : k \in 1 .. Len(q) }

\* A client connects: the connection waits in the backlog of the listening
\* socket.  A client that does not read lets its socket buffers fill.
connect(c, reading) ==
    /\ conns[c].state = "idle"
    /\ conns' = [conns EXCEPT ![c].state = "queued", ![c].reading = reading]
    /\ UNCHANGED <<tickVars, client_fds_, client_subscriptions_, broadcast, clientSideVars, event_loop>>

\* send(sockfd, bytes) by a client: the bytes wait in the server's socket,
\* after those that wait already; their arrival is an edge for epoll.
Sending(c, bytes) ==
    [conns EXCEPT ![c].inbox = @ \o bytes,
                  ![c].sends = @ + 1,
                  ![c].edge = (conns[c].state = "accepted")]

\* A client sends a subscription message for the vector symbol_ids with
\* MarketDataSocket::send_subscription (0xFF, count, ids).
client_subscribe(c, symbol_ids) ==
    /\ conns[c].state \in {"queued", "accepted"}
    /\ ~conns[c].closed
    /\ conns[c].sends < MaxSubscribes
    /\ conns' = [Sending(c, SubscriptionMessage(symbol_ids)) EXCEPT
                    ![c].asked = @ \cup Range(symbol_ids)]
    /\ UNCHANGED <<tickVars, client_fds_, client_subscriptions_, broadcast, clientSideVars, event_loop>>

\* A client sends bytes of its own making, as the tests do with send().
client_send(c, bytes) ==
    /\ conns[c].state \in {"queued", "accepted"}
    /\ ~conns[c].closed
    /\ conns[c].sends < MaxSends
    /\ conns' = Sending(c, bytes)
    /\ UNCHANGED <<tickVars, client_fds_, client_subscriptions_, broadcast, clientSideVars, event_loop>>

\* A client closes its socket: the end of the stream follows the bytes that
\* wait, and its arrival is an edge for epoll.
client_close(c) ==
    /\ conns[c].state \in {"queued", "accepted"}
    /\ ~conns[c].closed
    /\ conns' = [conns EXCEPT ![c].closed = TRUE,
                              ![c].edge = (conns[c].state = "accepted")]
    /\ UNCHANGED <<tickVars, client_fds_, client_subscriptions_, broadcast, clientSideVars, event_loop>>

\* run(): the listening socket is readable.  accept(), O_NONBLOCK,
\* EPOLL_CTL_ADD with EPOLLIN | EPOLLET (what already waits in the socket is
\* reported once), client_fds_.push_back(client_fd).
handle_new_connection(c) ==
    /\ running_
    /\ conns[c].state = "queued"
    /\ conns' = [conns EXCEPT ![c].state = "accepted", ![c].fd = LowestFreeFd,
                              ![c].edge = (conns[c].inbox # <<>> \/ conns[c].closed)]
    /\ client_fds_' = Append(client_fds_, LowestFreeFd)
    /\ UNCHANGED <<tickVars, client_subscriptions_, broadcast, clientSideVars, event_loop>>

\* handle_client_disconnect(client_fd): EPOLL_CTL_DEL, close, erase from
\* client_fds_, erase the subscriptions.
Disconnect(client_fd) ==
    /\ conns' = Close(conns, client_fd)
    /\ client_fds_' = EraseFirst(client_fds_, client_fd)
    /\ client_subscriptions_' = Erase(client_subscriptions_, client_fd)

\* uint8_t buffer[1024] of handle_client_data
RecvBufferSize == 1024

\* size_t num_symbols_
num_symbols_ == ServerSymbols

\* Mutant: the id num_symbols_ is taken for a valid one.
IsValidSymbolIdInclusive(symbol_id) == symbol_id <= num_symbols_

\* `if (symbol_id < num_symbols_)`
IsValidSymbolId(symbol_id) == symbol_id < num_symbols_

\* handle_subscription_message, the loop over the ids: the ids at offset
\* 3 + 2 i that are valid.
ParsedSymbolIds(data, count) ==
    { symbol_id \in { FromU16(<<data[3 + 2 * i + 1], data[3 + 2 * i + 2]>>) :
                      i \in 0 .. count - 1 } :
        IsValidSymbolId(symbol_id) }

\* Mutant: a message that is refused takes the client's subscriptions away.
RefusedErases(subs, client_fd) == Erase(subs, client_fd)

\* `return;` of handle_subscription_message before the set is built
Refused(subs, client_fd) == subs

\* handle_subscription_message(client_fd, data, len): the subscriptions
\* after the call.
handle_subscription_message(subs, client_fd, data) ==
    IF Len(data) < 3 THEN Refused(subs, client_fd)
    ELSE LET command == data[1]
             count == FromU16(<<data[2], data[3]>>)
             expected_len == 3 + (count * 2)
         IN IF command # 255 THEN Refused(subs, client_fd)
            ELSE IF Len(data) < expected_len THEN Refused(subs, client_fd)
            ELSE Assign(subs, client_fd, ParsedSymbolIds(data, count))

\* handle_client_data(client_fd) after recv has returned the bytes of
\* buffer: `if (bytes_read >= 3 && buffer[0] == 0xFF)`.
handle_client_data(subs, client_fd, buffer) ==
    IF Len(buffer) >= 3 /\ buffer[1] = 255
    THEN handle_subscription_message(subs, client_fd, buffer)
    ELSE Refused(subs, client_fd)

\* run(): an event of a client socket.  EPOLLHUP | EPOLLERR (the peer has
\* reset the connection): handle_client_disconnect.  EPOLLIN:
\* handle_client_data makes ONE recv of up to 1024 bytes: 0 bytes (the end of
\* the stream) disconnects; bytes are handed to handle_subscription_message,
\* which reads the first message in them and replaces the client's set.
handle_client_event(c) ==
    /\ running_
    /\ conns[c].state = "accepted"
    /\ conns[c].edge
    /\ IF conns[c].rst \/ (conns[c].inbox = <<>> /\ conns[c].closed)
       THEN Disconnect(conns[c].fd)
       ELSE LET inbox == conns[c].inbox
                bytes_read == Min(Len(inbox), RecvBufferSize)
                buffer == SubSeq(inbox, 1, bytes_read)
            IN /\ conns' = [conns EXCEPT
                              ![c].edge = FALSE,
                              ![c].inbox = SubSeq(inbox, bytes_read + 1, Len(inbox)),
                              ![c].buffers = IF bytes_read > 0 THEN Append(@, buffer) ELSE @]
               /\ client_subscriptions_' =
                    IF bytes_read = 0 THEN client_subscriptions_
                    ELSE handle_client_data(client_subscriptions_, conns[c].fd, buffer)
               /\ UNCHANGED client_fds_
    /\ UNCHANGED <<tickVars, broadcast, clientSideVars, event_loop>>

\* `continue;` in the loop of broadcast_message
Continue(t) == NextClient(t, Tail(t.clients))

\* Mutant: the broadcast gives up at the first client that would block.
OnWouldBlockBreak(t) == AfterTick(t)

\* EAGAIN / EWOULDBLOCK: "Slow consumer detected", `continue;`
OnWouldBlock(t) == Continue(t)

\* broadcast_message, under subscriptions_mutex_: the client is skipped when
\* it has no entry, an empty set, or a set without symbol_id.
tick_check ==
    /\ tick_thread_.pc = "check"
    /\ LET fd == tick_thread_.fd
           subscribed == /\ fd \in DOMAIN client_subscriptions_
                         /\ client_subscriptions_[fd] # {}
                         /\ broadcast.symbol_id \in client_subscriptions_[fd]
       IN IF subscribed
          THEN /\ tick_thread_' = [tick_thread_ EXCEPT !.pc = "send"]
               /\ broadcast' = [broadcast EXCEPT !.passed = @ \cup {fd}]
          ELSE /\ tick_thread_' = Continue(tick_thread_)
               /\ broadcast' = [broadcast EXCEPT !.skipped = @ \cup {fd}]
    /\ UNCHANGED <<running_, tick_rate_, fault_injection_enabled_, symbols_,
                   tick_rate_mutex_, tick_rate_cv_, control, emitted, client_fds_,
                   client_subscriptions_, conns, clientSideVars, event_loop>>

\* What send(fd, ..., MSG_NOSIGNAL | MSG_DONTWAIT) can return: EBADF when
\* fd is closed; EPIPE once the peer has reset the connection; the bytes are
\* taken when the peer has closed (it answers with a reset); a peer that
\* does not read has room left in its buffers for the bytes, for a part of
\* them (send returns less than len), or for none (EAGAIN).
SendOutcomes(fd) ==
    IF Holders(fd) = {} THEN {"EBADF"}
    ELSE LET c == The(Holders(fd))
         IN IF conns[c].rst THEN {"EPIPE"}
            ELSE IF conns[c].closed THEN {"sent"}
            ELSE IF ~conns[c].reading THEN {"sent", "partial", "EAGAIN"}
            ELSE {"sent"}

\* `sent > 0`: send took all the bytes or a part of them.
Took(outcome) == outcome \in {"sent", "partial"}

\* The sockets after send(fd) of a message of symbol_id, or of one of its
\* halves: the bytes send took are in the client's stream, as the part of
\* the last emitted message they are.
Sent(fd, symbol_id, outcome, part) ==
    IF ~Took(outcome) THEN conns
    ELSE LET c == The(Holders(fd))
         IN IF conns[c].closed
            THEN [conns EXCEPT ![c].rst = TRUE, ![c].edge = TRUE]
            ELSE [conns EXCEPT ![c].received = @ \cup {symbol_id},
                               ![c].stream = Append(@, [tick |-> Len(emitted), part |-> part,
                                                        all |-> outcome = "sent"])]

\* The record of the broadcast after a send to fd.
Noted(fd, outcome) ==
    IF Took(outcome) THEN [broadcast EXCEPT !.ok = @ \cup {fd}]
    ELSE IF outcome = "EAGAIN" THEN [broadcast EXCEPT !.blocked = @ \cup {fd}]
    ELSE [broadcast EXCEPT !.failed = @ \cup {fd}]

\* `fault_injection_enabled_ && dis(gen) <= 5`: the draws a send can make.
FragmentDraws == IF fault_injection_enabled_ THEN BOOLEAN ELSE {FALSE}

\* broadcast_message, outside the lock: the message is sent whole, or its
\* first half is when the fragmentation fault is drawn.
tick_send ==
    /\ tick_thread_.pc = "send"
    /\ \E fragment \in FragmentDraws, outcome \in SendOutcomes(tick_thread_.fd) :
         LET fd == tick_thread_.fd
         IN /\ broadcast' = Noted(fd, outcome)
            /\ IF fragment
               THEN /\ tick_thread_' = IF Took(outcome)
                                       THEN [tick_thread_ EXCEPT !.pc = "send2"]
                                       ELSE Continue(tick_thread_)
                    /\ conns' = Sent(fd, broadcast.symbol_id, outcome, "first")
                    /\ UNCHANGED <<client_fds_, client_subscriptions_>>
               ELSE IF outcome = "EPIPE"
               THEN /\ tick_thread_' = [tick_thread_ EXCEPT !.pc = "close",
                                                           !.conn = The(Holders(fd))]
                    /\ UNCHANGED <<conns, client_fds_, client_subscriptions_>>
               ELSE /\ tick_thread_' = IF outcome = "EAGAIN"
                                       THEN OnWouldBlock(tick_thread_)
                                       ELSE Continue(tick_thread_)
                    /\ conns' = Sent(fd, broadcast.symbol_id, outcome, "whole")
                    /\ UNCHANGED <<client_fds_, client_subscriptions_>>
    /\ UNCHANGED <<running_, tick_rate_, fault_injection_enabled_, symbols_,
                   tick_rate_mutex_, tick_rate_cv_, control, emitted, clientSideVars, event_loop>>

\* handle_client_disconnect(fd) called by broadcast_message, statement by
\* statement.  `epoll_ctl(epoll_fd_, EPOLL_CTL_DEL, client_fd, nullptr);
\* close(client_fd);`
tick_disconnect_close ==
    /\ tick_thread_.pc = "close"
    /\ conns' = Close(conns, tick_thread_.fd)
    /\ tick_thread_' = [tick_thread_ EXCEPT !.pc = "erase"]
    /\ UNCHANGED <<running_, tick_rate_, fault_injection_enabled_, symbols_,
                   tick_rate_mutex_, tick_rate_cv_, control, emitted, client_fds_,
                   client_subscriptions_, broadcast, clientSideVars, event_loop>>

\* `auto it = std::find(...); if (it != client_fds_.end()) client_fds_.erase(it);`
tick_disconnect_erase ==
    /\ tick_thread_.pc = "erase"
    /\ client_fds_' = EraseFirst(client_fds_, tick_thread_.fd)
    /\ tick_thread_' = [tick_thread_ EXCEPT !.pc = "unsubscribe"]
    /\ UNCHANGED <<running_, tick_rate_, fault_injection_enabled_, symbols_,
                   tick_rate_mutex_, tick_rate_cv_, control, emitted, conns,
                   client_subscriptions_, broadcast, clientSideVars, event_loop>>

\* History: the connection the disconnect was called for, the connection
\* that holds the descriptor when its subscriptions are erased, and whether
\* the set erased is one a frame of that holder has put there.
Erasure(t) ==
    [conn |-> t.conn,
     holder |-> Holders(t.fd),
     own |-> /\ t.fd \in DOMAIN client_subscriptions_
             /\ \E b \in Holders(t.fd) : conns[b].buffers # <<>>]

\* `{ lock_guard lock(subscriptions_mutex_); client_subscriptions_.erase(client_fd); }`
tick_disconnect_unsubscribe ==
    /\ tick_thread_.pc = "unsubscribe"
    /\ client_subscriptions_' = Erase(client_subscriptions_, tick_thread_.fd)
    /\ tick_thread_' = [Continue(tick_thread_) EXCEPT
                           !.conn = "none", !.erased = @ \cup {Erasure(tick_thread_)}]
    /\ UNCHANGED <<running_, tick_rate_, fault_injection_enabled_, symbols_,
                   tick_rate_mutex_, tick_rate_cv_, control, emitted, conns,
                   client_fds_, broadcast, clientSideVars, event_loop>>

\* The steps of handle_client_disconnect on the tick thread.
TickDisconnectNext ==
    \/ tick_disconnect_close
    \/ tick_disconnect_erase
    \/ tick_disconnect_unsubscribe

\* The second half of a fragmented message, 100 microseconds later; what
\* send returns is not looked at.
tick_send2 ==
    /\ tick_thread_.pc = "send2"
    /\ \E outcome \in SendOutcomes(tick_thread_.fd) :
         conns' = Sent(tick_thread_.fd, broadcast.symbol_id, outcome, "second")
    /\ tick_thread_' = Continue(tick_thread_)
    /\ UNCHANGED <<running_, tick_rate_, fault_injection_enabled_, symbols_,
                   tick_rate_mutex_, tick_rate_cv_, control, emitted, client_fds_,
                   client_subscriptions_, broadcast, clientSideVars, event_loop>>

\* The message generate_tick built for the emission e, as a value and as
\* the bytes handed to broadcast_message.  Every message is a trade here;
\* its timestamp, price and quantity are those of the tests' messages.
WireValue(e) ==
    [type |-> "TradeMessage",
     header |-> [msg_type |-> TRADE, seq_num |-> e.seq_num, timestamp |-> TestTimestamp,
                 symbol_id |-> e.symbol_id],
     payload |-> [price |-> Price1500_50, quantity |-> U32(100)]]

\* The bytes of a piece of a client's stream: the message, its first
\* `len / 2` bytes or the rest of it; one byte of these when send took
\* only a part.
PieceBytes(piece) ==
    LET data == create_message(WireValue(emitted[piece.tick]))
        first_part == Len(data) \div 2
        asked == CASE piece.part = "whole" -> data
                   [] piece.part = "first" -> SubSeq(data, 1, first_part)
                   [] piece.part = "second" -> SubSeq(data, first_part + 1, Len(data))
    IN IF piece.all THEN asked ELSE SubSeq(asked, 1, 1)

\* FeedHandler::receiver_loop of client c, one round with n > 0:
\* socket_->receive returns the next piece of the stream the server wrote
\* and parser_->parse is called with it.  The handler's own counters and the
\* latency it records for the receive call are not kept.
receiver_loop(c) ==
    /\ generic_handler_
    /\ Len(sent) < Len(conns[c].stream)
    /\ LET piece == conns[c].stream[Len(sent) + 1]
           data == PieceBytes(piece)
       IN /\ sent' = Append(sent, Item(WireValue(emitted[piece.tick]), data, piece.part, 0))
          /\ fed' = fed + Len(data)
          /\ \E call \in {ParseLoop(ParserState, data, 0)} : ParserBecomes(call.p)
    /\ UNCHANGED <<generic_handler_, resets, parsed, cacheVars, latencyVars, registryVars,
                   serverVars, socketVars>>

\* The simulator after start(), with the tick rate and the fault injection
\* of its configuration; run() is being called.
FanoutInit ==
    /\ running_ = TRUE
    /\ fault_injection_enabled_ \in BOOLEAN
    /\ tick_rate_ \in {0, ServerSymbols}
    /\ symbols_ = [id \in ServerSymbolIds |-> SymbolState(U32(0))]
    /\ client_fds_ = <<>>
    /\ client_subscriptions_ = [fd \in {} |-> {}]
    /\ tick_thread_ = [TickThreadIdle EXCEPT !.pc = "while"]
    /\ tick_rate_mutex_ = "free"
    /\ tick_rate_cv_ = FALSE
    /\ control = ControlIdle
    /\ conns = [c \in Conns |-> ConnIdle]
    /\ emitted = <<>>
    /\ broadcast = BroadcastIdle
    /\ event_loop = EventLoopIdle

\* The steps of the tick thread, those of a broadcast included.
FanoutThreadNext ==
    \/ TickThreadNext
    \/ tick_check
    \/ tick_send
    \/ tick_send2

\* run()
EventLoopNext ==
    \/ \E c \in Conns : handle_new_connection(c)
    \/ \E c \in Conns : handle_client_event(c)

\* Client A may be one that never reads; client B reads.
Reads(c) == IF c = "A" THEN BOOLEAN ELSE {TRUE}

\* The vectors the clients subscribe to: nothing, or the first symbol alone.
\* The second message emitted is of the second symbol, so that no send
\* follows the reset of a connection and the broadcast never calls
\* handle_client_disconnect in these runs.
SubscriptionVectors == {<<>>, <<0>>}

ClientsNext ==
    \/ \E c \in Conns : \E reading \in Reads(c) : connect(c, reading)
    \/ \E c \in Conns, symbol_ids \in SubscriptionVectors : client_subscribe(c, symbol_ids)
    \/ \E c \in Conns : client_close(c)

FanoutNext ==
    \/ FanoutThreadNext
    \/ EventLoopNext
    \/ ClientsNext

\* Vectors of ids passed to send_subscription: the last valid id, the
\* first invalid one, an id whose low byte is a valid id, an invalid id
\* before a valid one, no id.
ProbeVectors ==
    {<<>>, <<num_symbols_ - 1>>, <<num_symbols_>>, <<256>>, <<num_symbols_, num_symbols_ - 1>>}

\* Messages by the layout of the protocol, one of them with a byte after it.
WellFormedMessages ==
    { SubscriptionMessage(symbol_ids) : symbol_ids \in ProbeVectors }
    \cup { SubscriptionMessage(<<0>>) \o <<7>> }

\* One and two bytes; the wrong command of the test InvalidSubscriptionMessage;
\* a count of 2 with the bytes of one id.
MalformedMessages ==
    { <<255>>, <<255, 1>>, <<254, 2, 0, 0, 0, 1, 0>>, <<255, 2, 0, 0, 0>> }

RawMessages == WellFormedMessages \cup MalformedMessages

\* The server with its tick rate at 0 (the tick thread sends nothing), run()
\* being called.
SubscriptionInit ==
    /\ FanoutInit
    /\ tick_rate_ = 0
    /\ fault_injection_enabled_ = FALSE

\* Client A sends bytes of its own making, client B uses send_subscription.
SubscriptionNext ==
    \/ EventLoopNext
    \/ \E c \in Conns : connect(c, TRUE)
    \/ \E bytes \in RawMessages : client_send("A", bytes)
    \/ \E symbol_ids \in SubscriptionVectors : client_subscribe("B", symbol_ids)
    \/ \E c \in Conns : client_close(c)

\* The frames of a client and the segments TCP can deliver them in: a frame
\* for the first symbol and one for the second; the second one's header and
\* its id apart; a frame of 511 ids, one byte longer than the buffer of
\* handle_client_data.
FirstFrame == SubscriptionMessage(<<0>>)

SecondFrame == SubscriptionMessage(<<1>>)

LongFrame ==
    LET count == RecvBufferSize \div 2 - 1
    IN <<255>> \o U16(count) \o [i \in 1 .. 2 * count |-> 0]

Segments ==
    {FirstFrame, SecondFrame, SubSeq(SecondFrame, 1, 3), SubSeq(SecondFrame, 4, 5), LongFrame}

\* The event loop and one client that writes frames to its socket.
FramesNext ==
    \/ EventLoopNext
    \/ connect("A", TRUE)
    \/ \E bytes \in Segments : client_send("A", bytes)

--------------------------------------------------------------------------
(* ExchangeSimulator::run, one statement at a time *)

\* What epoll_wait has to report.  The listening socket (EPOLLIN, level
\* triggered) is readable while a connection waits in its backlog.  A client
\* socket (EPOLLIN | EPOLLET) is reported once per edge: with EPOLLERR |
\* EPOLLHUP after a reset, with EPOLLIN otherwise.  The event carries the fd;
\* conn is the connection it was reported for.
ReadyEvents ==
    { [kind |-> "listen", fd |-> 0, conn |-> "none"] :
        c \in { d \in Conns : conns[d].state = "queued" } }
    \cup { [kind |-> IF conns[c].rst THEN "hup" ELSE "in", fd |-> conns[c].fd, conn |-> c] :
             c \in { d \in Conns : conns[d].state = "accepted" /\ conns[d].edge } }

\* `while (running_) { int nfds = epoll_wait(epoll_fd_, events, MAX_EVENTS, 100);`
\* a return without events is a step that changes nothing.
run_epoll_wait ==
    /\ event_loop.pc = "wait"
    /\ IF ~running_
       THEN /\ event_loop' = [event_loop EXCEPT !.pc = "done"]
            /\ UNCHANGED conns
       ELSE /\ ReadyEvents # {}
            /\ event_loop' = [event_loop EXCEPT !.pc = "for", !.events = ReadyEvents]
            /\ conns' = [c \in Conns |-> [conns[c] EXCEPT !.edge = FALSE]]
    /\ UNCHANGED <<tickVars, client_fds_, client_subscriptions_, broadcast, clientSideVars>>

\* `for (int i = 0; i < nfds; ++i)`: the loop after the handler of event e
EventHandled(e) ==
    LET rest == event_loop.events \ {e}
    IN [event_loop EXCEPT !.events = rest, !.pc = IF rest = {} THEN "wait" ELSE "for"]

\* History: handle_client_disconnect(e.fd) called for event e closes the
\* socket of whoever holds e.fd at the time of the call.
DisconnectCalled(loop, e) ==
    [loop EXCEPT !.disconnects = @ \cup {[conn |-> e.conn, fd |-> e.fd, closed |-> Holders(e.fd)]}]

\* `if (events[i].data.fd == server_fd_) handle_new_connection();`
run_new_connection ==
    /\ event_loop.pc = "for"
    /\ \E e \in event_loop.events, c \in Conns :
         /\ e.kind = "listen"
         /\ conns[c].state = "queued"
         /\ conns' = [conns EXCEPT ![c].state = "accepted", ![c].fd = LowestFreeFd,
                                   ![c].edge = (conns[c].inbox # <<>> \/ conns[c].closed)]
         /\ client_fds_' = Append(client_fds_, LowestFreeFd)
         /\ event_loop' = EventHandled(e)
    /\ UNCHANGED <<tickVars, client_subscriptions_, broadcast, clientSideVars>>

\* `if (events[i].events & (EPOLLHUP | EPOLLERR)) handle_client_disconnect(events[i].data.fd);`
run_hangup ==
    /\ event_loop.pc = "for"
    /\ \E e \in event_loop.events :
         /\ e.kind = "hup"
         /\ Disconnect(e.fd)
         /\ event_loop' = DisconnectCalled(EventHandled(e), e)
    /\ UNCHANGED <<tickVars, broadcast, clientSideVars>>

\* What recv(client_fd, buffer, sizeof(buffer), MSG_DONTWAIT) returns.
RecvOutcome(client_fd) ==
    IF Holders(client_fd) = {} THEN "EBADF"
    ELSE LET c == The(Holders(client_fd))
         IN IF conns[c].rst THEN "ECONNRESET"
            ELSE IF conns[c].inbox # <<>> THEN "data"
            ELSE IF conns[c].closed THEN "eof"
            ELSE "EAGAIN"

\* `else if (events[i].events & EPOLLIN) handle_client_data(events[i].data.fd);`
run_client_data ==
    /\ event_loop.pc = "for"
    /\ \E e \in event_loop.events :
         /\ e.kind = "in"
         /\ LET outcome == RecvOutcome(e.fd)
            IN IF outcome \in {"EBADF", "ECONNRESET", "eof"}
               THEN /\ Disconnect(e.fd)
                    /\ event_loop' = DisconnectCalled(EventHandled(e), e)
               ELSE IF outcome = "EAGAIN"
               THEN /\ event_loop' = EventHandled(e)
                    /\ UNCHANGED <<conns, client_fds_, client_subscriptions_>>
               ELSE LET c == The(Holders(e.fd))
                        inbox == conns[c].inbox
                        bytes_read == Min(Len(inbox), RecvBufferSize)
                        buffer == SubSeq(inbox, 1, bytes_read)
                    IN /\ conns' = [conns EXCEPT
                                      ![c].inbox = SubSeq(inbox, bytes_read + 1, Len(inbox)),
                                      ![c].buffers = Append(@, buffer)]
                       /\ client_subscriptions_' =
                            handle_client_data(client_subscriptions_, e.fd, buffer)
                       /\ event_loop' = EventHandled(e)
                       /\ UNCHANGED client_fds_
    /\ UNCHANGED <<tickVars, broadcast, clientSideVars>>

\* run(), statement by statement
RunNext ==
    \/ run_epoll_wait
    \/ run_new_connection
    \/ run_hangup
    \/ run_client_data

\* The tick thread of a simulator whose tick rate is not 0 and whose fault
\* injection is off.
BroadcastThreadNext ==
    \/ tick_while
    \/ tick_load
    \/ tick_generate
    \/ tick_sleep
    \/ tick_check
    \/ tick_send
    \/ TickDisconnectNext

\* stop(), called while run() is in progress in another thread
StopNext ==
    \/ stop_store
    \/ stop_notify
    \/ stop_join
    \/ stop_close

\* The clients connect, subscribe to the first two symbols and close.
RunClientsNext ==
    \/ \E c \in Conns : connect(c, TRUE)
    \/ \E c \in Conns : client_subscribe(c, <<0, 1>>)
    \/ \E c \in Conns : client_close(c)

\* The simulator after start() with one tick per symbol and no fault injection.
RunInit ==
    /\ FanoutInit
    /\ tick_rate_ = ServerSymbols
    /\ fault_injection_enabled_ = FALSE

RunLoopNext ==
    \/ RunNext
    \/ BroadcastThreadNext
    \/ StopNext
    \/ RunClientsNext

--------------------------------------------------------------------------
(* Specifications *)

CacheIdle == CacheInit /\ quoteOnly = FALSE

InitCache == CacheInit /\ quoteOnly \in BOOLEAN /\ ParserIdle /\ LatencyIdle /\ RegistryIdle /\ ServerIdle /\ SocketIdle

SpecCache == InitCache /\ [][CacheNext]_vars

\* The steps of an update_* call after its entry.
WriterStep ==
    \/ WriterLoadSeq
    \/ WriterStoreOdd
    \/ WriterStoreField
    \/ WriterStoreEven

\* The steps of a get_* call after its entry.
ReaderStep(r) ==
    \/ ReaderLoad1(r)
    \/ ReaderSpin(r)
    \/ ReaderLoadField(r)
    \/ ReaderLoad2(r)

\* The writer thread and each reader thread are scheduled again and again:
\* a call that has begun takes its next step.  The calls themselves begin
\* when their callers choose.
SpecCacheFair ==
    SpecCache /\ WF_vars(WriterStep) /\ \A r \in Readers : WF_vars(ReaderStep(r))

InitParser == ParserInit /\ CacheIdle /\ LatencyIdle /\ RegistryIdle /\ ServerIdle /\ SocketIdle

SpecParser == InitParser /\ [][ParserNext]_vars

InitParserCalls == ParserCallsInit /\ CacheIdle /\ LatencyIdle /\ RegistryIdle /\ ServerIdle /\ SocketIdle

SpecParserCalls == InitParserCalls /\ [][ParserCallsNext]_vars

InitLatency == LatencyInit /\ CacheIdle /\ ParserIdle /\ RegistryIdle /\ ServerIdle /\ SocketIdle

SpecLatency == InitLatency /\ [][LatencyNext]_vars

InitRegistry == RegistryInit /\ CacheIdle /\ ParserIdle /\ LatencyIdle /\ ServerIdle /\ SocketIdle

SpecRegistry == InitRegistry /\ [][RegistryNext]_vars

InitSubscription ==
    SubscriptionInit /\ CacheIdle /\ ParserIdle /\ LatencyIdle /\ RegistryIdle /\ SocketIdle

SpecSubscription == InitSubscription /\ [][SubscriptionNext]_vars

SpecFrames == InitSubscription /\ [][FramesNext]_vars

InitSocket == SocketInit /\ CacheIdle /\ ParserIdle /\ LatencyIdle /\ RegistryIdle /\ ServerIdle

SpecSocket == InitSocket /\ [][SocketNext]_vars

InitTick == TickInit /\ CacheIdle /\ ParserIdle /\ LatencyIdle /\ RegistryIdle /\ SocketIdle

SpecTick == InitTick /\ [][TickNext]_vars

\* The tick thread and a call in progress keep running; nothing makes a
\* condition variable wake a thread by itself, and nothing makes the control
\* thread begin a call.
SpecTickFair == SpecTick /\ WF_vars(TickThreadNext) /\ WF_vars(ControlContinue)

InitRun == RunInit /\ CacheIdle /\ ParserIdle /\ LatencyIdle /\ RegistryIdle /\ SocketIdle

SpecRun == InitRun /\ [][RunLoopNext]_vars

InitPrice == PriceInit /\ CacheIdle /\ ParserIdle /\ LatencyIdle /\ RegistryIdle /\ SocketIdle

PriceNext ==
    \/ \E symbol_id \in 0 .. ServerSymbols : generate_tick(symbol_id)
    \/ \E enable \in BOOLEAN : enable_fault_injection(enable)

SpecPrice == InitPrice /\ [][PriceNext]_vars

\* The simulator after start() with a tick rate under, at and over the
\* number of symbols, and no client.
CycleRates == {1, ServerSymbols, 2 * ServerSymbols - 1}

CycleInit ==
    /\ running_ = TRUE
    /\ fault_injection_enabled_ \in BOOLEAN
    /\ tick_rate_ \in CycleRates
    /\ symbols_ = [id \in ServerSymbolIds |-> SymbolState(U32(0))]
    /\ client_fds_ = <<>>
    /\ client_subscriptions_ = [fd \in {} |-> {}]
    /\ tick_thread_ = [TickThreadIdle EXCEPT !.pc = "while"]
    /\ tick_rate_mutex_ = "free"
    /\ tick_rate_cv_ = FALSE
    /\ control = ControlIdle
    /\ conns = [c \in Conns |-> ConnIdle]
    /\ emitted = <<>>
    /\ broadcast = BroadcastIdle
    /\ event_loop = EventLoopIdle

InitCycle == CycleInit /\ CacheIdle /\ ParserIdle /\ LatencyIdle /\ RegistryIdle /\ SocketIdle

\* The tick thread, and set_tick_rate called during its cycles.
CycleNext ==
    \/ tick_while
    \/ tick_load
    \/ tick_generate
    \/ tick_sleep
    \/ \E ticks_per_second \in CycleRates : set_tick_rate_exchange(ticks_per_second)
    \/ \E enable \in BOOLEAN : enable_fault_injection(enable)

SpecCycle == InitCycle /\ [][CycleNext]_vars

\* record, reset and export_to_csv
ExportNext ==
    \/ \E t \in RecorderThreads, latency_ns \in LatencySamples : record_fetch_add(t, latency_ns)
    \/ \E t \in RecorderThreads : record_store(t)
    \/ LatencyTracker_reset
    \/ \E is_open \in BOOLEAN : export_to_csv(is_open)

SpecExport == InitLatency /\ [][ExportNext]_vars

InitFanout == FanoutInit /\ CacheIdle /\ ParserIdle /\ LatencyIdle /\ RegistryIdle /\ SocketIdle

SpecFanout == InitFanout /\ [][FanoutNext]_vars

\* The tick thread and the event loop keep running; nothing obliges a
\* client to do anything.
SpecFanoutFair == SpecFanout /\ WF_vars(FanoutThreadNext) /\ WF_vars(EventLoopNext)

--------------------------------------------------------------------------
(* SymbolCache: properties *)

\* A get_snapshot call on a valid symbol that is about to return.
Returning(me) == me.pc = "ret" /\ me.op = "get_snapshot" /\ me.sym < NumSymbols

\* C1: every snapshot get_snapshot returns equals the complete field state
\* the symbol had at construction or right after some completed update (never
\* a mix of two updates); when the writer only issues
\* update_quote(id, k, k, k+0.5, k), every snapshot has
\* bid_quantity = ask_quantity.
C1_NoTornReads ==
    \A r \in Readers :
        Returning(readers[r]) =>
            /\ readers[r].snapshot \in committed[readers[r].sym]
            /\ quoteOnly => readers[r].snapshot.bid_quantity = readers[r].snapshot.ask_quantity

\* C1 witness: a snapshot of a completed update_quote returned by a call that
\* met the writer (it spun on an odd sequence or discarded an attempt).
C1_Witness ==
    \E r \in Readers :
        /\ Returning(readers[r])
        /\ quoteOnly
        /\ readers[r].raced
        /\ readers[r].snapshot.update_count >= 1
        /\ readers[r].snapshot.bid_quantity = readers[r].snapshot.update_count

\* C2: once the writer has completed its update_* calls and has been joined,
\* a get_snapshot called afterwards returns update_count = the number of
\* calls completed on that symbol.
C2_UpdateCountAfterJoin ==
    \A r \in Readers :
        (Returning(readers[r]) /\ readers[r].afterJoin) =>
            readers[r].snapshot.update_count = nwrites[readers[r].sym]

\* C2 witness: the writer completed MaxUpdates calls on the symbol, was
\* joined, and a snapshot taken afterwards returns.
C2_Witness ==
    \E r \in Readers :
        /\ Returning(readers[r])
        /\ readers[r].afterJoin
        /\ nwrites[readers[r].sym] = MaxUpdates

\* C3: an update_* with symbol_id >= num_symbols returns at once and changes
\* no symbol's state; get_snapshot with such an id returns the all-zero
\* snapshot and get_bid / get_ask / get_ltp return 0.
OutOfRangeReadsZero ==
    \A r \in Readers :
        (readers[r].pc # "idle" /\ readers[r].op # "get_total_updates"
            /\ readers[r].sym >= NumSymbols) =>
            /\ readers[r].pc = "ret"
            /\ readers[r].op = "get_snapshot" => Result(readers[r]) = [f \in DOMAIN MarketSnapshot |-> 0]
            /\ readers[r].op # "get_snapshot" => Result(readers[r]) = 0

OutOfRangeWriteNoOp ==
    (writer'.calls = writer.calls + 1 /\ writer'.sym >= NumSymbols) =>
        /\ writer'.pc = "idle"
        /\ states_' = states_
        /\ nwrites' = nwrites

C3_OutOfRange == []OutOfRangeReadsZero /\ [][OutOfRangeWriteNoOp]_vars

\* C3 witness: after a completed update of a valid symbol the writer has
\* issued an update with an out-of-range id, and a reader's get_bid with an
\* out-of-range id returns.
C3_Witness ==
    /\ writer.calls = MaxUpdates
    /\ writer.pc = "idle"
    /\ writer.sym >= NumSymbols
    /\ \E s \in DOMAIN nwrites : nwrites[s] >= 1
    /\ \E r \in Readers :
          readers[r].pc = "ret" /\ readers[r].op = "get_bid" /\ readers[r].sym >= NumSymbols

--------------------------------------------------------------------------
(* BinaryParser: properties *)

\* A run in which a handler is installed and reset() has not been called.
Plain == generic_handler_ /\ resets = 0

AllFed == fed = Len(Stream)

\* What the handler was given, without the checksum field.
Delivered(view) == [type |-> view.type, header |-> view.header, payload |-> view.payload]

\* The messages of the stream whose last byte has been passed to parse, in order.
RECURSIVE Complete(_, _)
Complete(items, n) ==
    IF items = <<>> \/ Len(Head(items).bytes) > n THEN <<>>
    ELSE <<Head(items).value>> \o Complete(Tail(items), n - Len(Head(items).bytes))

\* C4: for a stream of valid messages cut into arbitrary slices, the handler
\* has been invoked exactly once for each message whose bytes have all been
\* passed to parse, in the order sent, with the message's type and original
\* field values - so once per message of the stream when all of it is passed.
C4_OncePerMessageInOrder ==
    (Plain /\ sent \in ValidStreams) =>
        /\ [i \in 1 .. Len(handled) |-> Delivered(handled[i])] = Complete(sent, fed)
        /\ messages_parsed_ = Len(handled)
        /\ AllFed => Len(handled) = Len(sent)

\* C4 witness: MaxMsgs messages of different types, passed in slices that cut
\* messages (the parser met incomplete messages), all dispatched.
C4_Witness ==
    /\ Plain /\ sent \in ValidStreams /\ AllFed
    /\ Len(sent) = MaxMsgs
    /\ sent[1].value.type # sent[2].value.type
    /\ fragmented_messages_ >= 3
    /\ Len(handled) = MaxMsgs

\* C5 as stated: a valid message with one bit flipped at any position, passed
\* to parse, gives exactly one checksum error and no handler call.
C5_AnyFlipIsChecksumError ==
    (Plain /\ AllFed /\ sent \in FlippedStreams) =>
        (checksum_errors_ = 1 /\ handled = <<>>)

\* C5 amended: the same for every bit position outside the msg_type field
\* (the first two bytes); the message is dropped whole.
C5_FlipOutsideTypeIsChecksumError ==
    (Plain /\ AllFed /\ sent \in FlippedStreams /\ sent[1].pos >= 16) =>
        /\ checksum_errors_ = 1
        /\ handled = <<>>
        /\ messages_parsed_ = 0
        /\ malformed_messages_ = 0
        /\ buffer_pos_ = 0

\* C5 witness: a message with a flipped payload bit has been parsed.
C5_Witness ==
    /\ Plain /\ AllFed /\ sent \in FlippedStreams
    /\ sent[1].pos >= 8 * SizeofMessageHeader
    /\ sent[1].value.type = "QuoteMessage"
    /\ checksum_errors_ = 1

\* The valid messages of a stream, in order.
RECURSIVE ValidOf(_)
ValidOf(items) ==
    IF items = <<>> THEN <<>>
    ELSE (IF Head(items).kind = "valid" THEN <<Head(items).value>> ELSE <<>>)
         \o ValidOf(Tail(items))

\* C6 as stated: after a header with an unknown msg_type the stream
\* resynchronizes: once the whole stream has been passed to parse, every valid
\* message that follows the bad bytes has been dispatched.
C6_ResyncDispatchesFollowing ==
    (Plain /\ AllFed /\ sent \in UnknownTypeStreams) =>
        /\ malformed_messages_ >= 1
        /\ [i \in 1 .. Len(handled) |-> Delivered(handled[i])] = ValidOf(sent)

\* The sequence numbers of the messages dispatched so far.
SeqNums == [i \in 1 .. Len(handled) |-> handled[i].header.seq_num]

\* Consecutive pairs (a, b) with a # 0 and b # a + 1 (in uint32_t).
GapPairs(q) ==
    { i \in 1 .. Len(q) - 1 : q[i] # <<0, 0, 0, 0>> /\ q[i + 1] # Inc(q[i]) }

\* C7: of checksum-valid messages, each consecutive pair with sequence numbers
\* a then b, a # 0 and b # a + 1, adds exactly one to sequence_gaps; a pair
\* with b = a + 1, and a message after last_seq = 0, add nothing; every
\* message is dispatched all the same.
C7_SequenceGaps ==
    (Plain /\ sent \in ValidStreams) =>
        /\ sequence_gaps_ = Cardinality(GapPairs(SeqNums))
        /\ last_seq_num_ = (IF handled = <<>> THEN <<0, 0, 0, 0>> ELSE SeqNums[Len(handled)])
        /\ AllFed => Len(handled) = Len(sent)

\* C7 witness: seq 2 then seq 1 (a gap), both dispatched.
C7_Witness ==
    /\ Plain /\ sent \in ValidStreams /\ AllFed
    /\ Len(handled) = 2
    /\ SeqNums = <<U32(2), U32(1)>>
    /\ sequence_gaps_ = 1

\* C7 witness cases that add nothing: 1 then 2, 0 then 2, 0xFFFFFFFF then 0.
C7_NoGapCases ==
    /\ Plain /\ sent \in ValidStreams /\ AllFed
    /\ SeqNums \in {<<U32(1), U32(2)>>, <<U32(0), U32(2)>>, <<U32Max, U32(0)>>}

\* C8 as stated: after reset() the buffer position, last_seq and every counter
\* are zero.
C8_ResetZeroesAll ==
    resets > 0 =>
        /\ buffer_pos_ = 0
        /\ last_seq_num_ = <<0, 0, 0, 0>>
        /\ messages_parsed_ = 0
        /\ checksum_errors_ = 0
        /\ sequence_gaps_ = 0
        /\ malformed_messages_ = 0
        /\ fragmented_messages_ = 0

--------------------------------------------------------------------------
(* LatencyTracker: properties *)

\* The least power of two that is >= the requested maximum.
Capacity ==
    CHOOSE c \in { 2 ^ e : e \in 0 .. 16 } :
        /\ c >= max_samples
        /\ \A d \in { 2 ^ e : e \in 0 .. 16 } : d >= max_samples => c <= d

\* a <= b in uint64_t
Leq64(a, b) == ~Less64(b, a)

\* A get_stats call about to return, with no record or reset() running beside it.
StatsOfState == stats_reader.pc = "ret" /\ stats_reader.quiet

\* C9: get_stats called after exactly k record calls since construction or
\* the last reset(), issued from one thread or several, returns sample_count =
\* min(k, capacity), capacity being the least power of two >= the requested
\* maximum; no get_stats call returns a sample_count above the capacity.
C9_SampleCount ==
    /\ stats_reader.pc = "ret" => stats_reader.stats.sample_count <= Capacity
    /\ StatsOfState => stats_reader.stats.sample_count = Min(stats_reader.k, Capacity)

\* C9 witness: a requested maximum that is no power of two, and three records
\* of different latencies.
C9_Witness ==
    /\ StatsOfState
    /\ max_samples = 3
    /\ stats_reader.k = 3
    /\ stats_reader.stats.sample_count = 3
    /\ samples_[0] # samples_[1]

\* C9 witness: the ring has wrapped.
C9_Wrapped ==
    /\ StatsOfState
    /\ stats_reader.k > Capacity
    /\ stats_reader.stats.sample_count = Capacity

\* C10 as stated: in every tracker state reached by record and reset() calls,
\* get_stats returns min <= mean <= max if there are samples, and all fields
\* zero if there has been no record since construction or the last reset().
C10_MeanBetweenMinAndMax ==
    StatsOfState =>
        IF stats_reader.k = 0
        THEN stats_reader.stats = LatencyStats
        ELSE /\ Leq64(stats_reader.stats.min, stats_reader.stats.mean)
             /\ Leq64(stats_reader.stats.mean, stats_reader.stats.max)

\* The percentiles get_stats reads: 50 %, 95 %, 99 %, 99.9 %.
Permilles == {500, 950, 990, 999}

\* C11: get_stats on a tracker that holds samples returns p50 <= p95 <= p99
\* <= p999 <= max, and with n samples aggregated each percentile is read at
\* an index within 0 .. n-1 of the sorted copy, for n = 1 too.
C11_PercentilesMonotonic ==
    (StatsOfState /\ stats_reader.k > 0) =>
        /\ Leq64(stats_reader.stats.p50, stats_reader.stats.p95)
        /\ Leq64(stats_reader.stats.p95, stats_reader.stats.p99)
        /\ Leq64(stats_reader.stats.p99, stats_reader.stats.p999)
        /\ Leq64(stats_reader.stats.p999, stats_reader.stats.max)
        /\ \A permille \in Permilles :
             PercentileIndex(stats_reader.num_samples, permille) \in
                 0 .. stats_reader.num_samples - 1

\* C11 witness: three samples recorded in descending order; the median is
\* below the upper percentiles.
C11_Witness ==
    /\ StatsOfState
    /\ stats_reader.num_samples = 3
    /\ Less64(samples_[2], samples_[1])
    /\ Less64(samples_[1], samples_[0])
    /\ Less64(stats_reader.stats.p50, stats_reader.stats.p95)

\* C11 witness for a single sample: every percentile is that sample.
C11_SingleSample ==
    /\ StatsOfState
    /\ stats_reader.num_samples = 1
    /\ stats_reader.stats.p50 = samples_[0]
    /\ stats_reader.stats.p999 = samples_[0]
    /\ samples_[0] # U64(0)

--------------------------------------------------------------------------
(* BinaryParser: the calls of parse *)

\* C30: parse(data, len) terminates for every input and every parser state
\* (its loop makes no pass that copies nothing and removes nothing) and
\* returns len; the buffered byte count is at most BUFFER_SIZE during the
\* call and after it, also when the input fills the buffer or is larger
\* than it.
C30_ParseConsumesAll ==
    /\ parsed.terminated
    /\ parsed.returned = parsed.len
    /\ parsed.peak <= BUFFER_SIZE
    /\ buffer_pos_ <= BUFFER_SIZE
    /\ buffer_pos_ = Len(buffer_)

\* parse was called with more bytes than the buffer holds: it has filled
\* the buffer and has returned len.
C30_Witness ==
    /\ parsed.len > BUFFER_SIZE
    /\ parsed.peak = BUFFER_SIZE
    /\ parsed.returned = parsed.len

\* parse was called on a parser whose buffer was one byte short of full,
\* and has filled it.
C30_NearlyFull ==
    /\ parsed.len \in 1 .. MaxChunk
    /\ parsed.peak = BUFFER_SIZE
    /\ buffer_pos_ = BUFFER_SIZE - 1

\* parse(data, 0) was called on a parser that has bytes buffered.
C30_ZeroLength ==
    /\ parsed.len = 0
    /\ parsed.returned = 0
    /\ buffer_pos_ > 0

--------------------------------------------------------------------------
(* MarketDataSocket: properties *)

\* The last call on the socket was receive.
Receive == socket_call.op = "receive"

\* C25: receive returns a positive byte count (what recv returned) when
\* data was read; 0 with connected_ as it was on EAGAIN / EWOULDBLOCK; 0 with
\* connected_ false when recv returned 0 at the end of the stream; a
\* negative value with connected_ false on any other error of recv; and,
\* called while connected_ is false, a negative value without a call of
\* recv and with sockfd_ and connected_ as they were.
C25_ReceiveResults ==
    Receive =>
        LET r == socket_call.recv
            called == r.errno # "not called"
        IN /\ (called /\ r.n > 0) => socket_call.ret = r.n /\ socket_call.ret > 0
           /\ (called /\ r.n < 0 /\ r.errno \in {"EAGAIN", "EWOULDBLOCK"}) =>
                 socket_call.ret = 0 /\ connected_ = socket_call.connected_
           /\ (called /\ r.n = 0) => socket_call.ret = 0 /\ ~connected_
           /\ (called /\ r.n < 0 /\ r.errno \notin {"EAGAIN", "EWOULDBLOCK"}) =>
                 socket_call.ret < 0 /\ ~connected_
           /\ ~socket_call.connected_ =>
                 /\ socket_call.ret < 0
                 /\ ~called
                 /\ sockfd_ = socket_call.sockfd_
                 /\ connected_ = socket_call.connected_
           /\ called => socket_call.connected_ /\ socket_call.sockfd_ >= 0

\* receive was called on a connected socket whose peer had closed after
\* its bytes were read: it returned 0 and connected_ is false.
C25_Witness ==
    /\ Receive
    /\ socket_call.connected_
    /\ socket_call.peer.fin
    /\ socket_call.recv = [n |-> 0, errno |-> ""]
    /\ socket_call.ret = 0
    /\ ~connected_

\* receive found nothing to read on a connected socket: it returned 0 and
\* connected_ is still true.
C25_WouldBlock ==
    /\ Receive
    /\ socket_call.recv.errno = "EAGAIN"
    /\ socket_call.ret = 0
    /\ connected_

\* receive read fewer bytes than were queued.
C25_Data ==
    /\ Receive
    /\ socket_call.recv.n = 1
    /\ socket_call.peer.queued = 2
    /\ socket_call.ret = 1

\* receive met a reset connection.
C25_HardError ==
    /\ Receive
    /\ socket_call.recv.errno = "ECONNRESET"
    /\ socket_call.ret = -1
    /\ ~connected_

\* receive was called after disconnect(), or after the peer had closed.
C25_NotConnected ==
    /\ Receive
    /\ ~socket_call.connected_
    /\ socket_call.ret = -1

--------------------------------------------------------------------------
(* SymbolCache: the sequence counter *)

\* The update_* call in progress on symbol id is between its first and its
\* second store of the sequence.
WriteInProgress(id) == writer.sym = id /\ writer.pc \in {"write", "store_even"}

\* C26: the sequence of a symbol is odd exactly while an update_* call on
\* it is between its first and its second sequence store (one writer per
\* symbol), and even otherwise; each completed update raises it by exactly
\* 2: it is twice the number of the completed updates, plus one while a
\* write is in progress.
C26_SequenceParity ==
    \A id \in DOMAIN states_ :
       /\ IsOdd(states_[id].sequence) <=> WriteInProgress(id)
       /\ states_[id].sequence =
            2 * nwrites[id] + (IF WriteInProgress(id) THEN 1 ELSE 0)

\* The second update of a symbol is between its two sequence stores, with
\* a reader in its critical section.
C26_Witness ==
    \E id \in DOMAIN states_ :
       /\ WriteInProgress(id)
       /\ nwrites[id] = 1
       /\ states_[id].sequence = 3
       /\ \E r \in Readers : readers[r].pc # "idle"

\* Two updates of a symbol have completed and none is in progress.
C26_TwoCompleted ==
    \E id \in DOMAIN states_ :
       /\ writer.pc = "idle"
       /\ nwrites[id] = 2
       /\ states_[id].sequence = 4

--------------------------------------------------------------------------
(* ClientManager: properties *)

\* The last call was op, on an fd.
Called(op) == registry_call.op = op /\ registry_calls > 0

\* The maps are as the last call found them.
RegistryUnchanged ==
    /\ clients_ = registry_call.clients_
    /\ subscriptions_ = registry_call.subscriptions_

\* The entries of the fds other than fd are as the last call found them.
OthersUnchanged(fd) ==
    /\ DOMAIN clients_ \ {fd} = DOMAIN registry_call.clients_ \ {fd}
    /\ DOMAIN subscriptions_ \ {fd} = DOMAIN registry_call.subscriptions_ \ {fd}
    /\ \A g \in DOMAIN clients_ \ {fd} : clients_[g] = registry_call.clients_[g]
    /\ \A g \in DOMAIN subscriptions_ \ {fd} :
         subscriptions_[g] = registry_call.subscriptions_[g]

\* fd had an entry in neither map when the last call was made.
NoEntry(fd) ==
    /\ fd \notin DOMAIN registry_call.clients_
    /\ fd \notin DOMAIN registry_call.subscriptions_

\* C19: after remove_client(fd), get_all_clients() does not hold fd and
\* get_subscribed_clients(id) holds fd for no id, whatever subscriptions fd
\* had; the entries of the other fds are untouched, and when fd had an entry
\* in neither map the call changes nothing.
C19_RemovePurgesSubscriptions ==
    Called("remove_client") =>
        /\ registry_call.fd \notin get_all_clients
        /\ \A id \in RegistrySymbolIds : registry_call.fd \notin get_subscribed_clients(id)
        /\ OthersUnchanged(registry_call.fd)
        /\ NoEntry(registry_call.fd) => RegistryUnchanged

\* remove_client(fd) was called on a client that had subscriptions, while
\* the record of another client stays.
C19_Witness ==
    /\ Called("remove_client")
    /\ registry_call.fd \in DOMAIN registry_call.clients_
    /\ registry_call.fd \in DOMAIN registry_call.subscriptions_
    /\ registry_call.subscriptions_[registry_call.fd] # {}
    /\ get_all_clients # {}

\* remove_client(fd) was called on an fd with no entry, in a registry that is not empty.
C19_UnknownFd ==
    /\ Called("remove_client")
    /\ NoEntry(registry_call.fd)
    /\ DOMAIN clients_ # {}
    /\ DOMAIN subscriptions_ # {}

\* The fd of the last call had no client record: it was never added, or it was removed.
UnknownFd == registry_calls > 0 /\ registry_call.fd \notin DOMAIN registry_call.clients_

Mutators ==
    {"remove_client", "mark_slow_client", "update_stats", "subscribe", "unsubscribe",
     "clear_subscriptions"}

C20_RemovedFd ==
    /\ UnknownFd
    /\ Called("update_stats")
    /\ NoEntry(registry_call.fd)
    /\ DOMAIN clients_ # {}
    /\ registry_calls >= 4

\* is_subscribed(fd, symbol_id), had it been called before the last call.
WasSubscribed(fd, symbol_id) ==
    /\ fd \in DOMAIN registry_call.subscriptions_
    /\ symbol_id \in registry_call.subscriptions_[fd]

\* The calls that end the set a subscribe gave to an fd.
SubscriptionEditors == {"subscribe", "unsubscribe", "clear_subscriptions", "remove_client"}

\* C21: after subscribe(fd, S), is_subscribed(fd, x) holds iff x is in S,
\* whatever set fd had before (an empty S leaves nothing subscribed); a call
\* that is not a subscribe, unsubscribe, clear_subscriptions or remove_client
\* on fd leaves is_subscribed(fd, x) as it was for every x; and in every
\* state get_subscribed_clients(id) is exactly the set of the fds for which
\* is_subscribed(fd, id) holds.
C21_SubscribeReplaces ==
    /\ Called("subscribe") =>
          \A x \in RegistrySymbolIds :
             is_subscribed(registry_call.fd, x) <=> x \in registry_call.arg
    /\ registry_calls > 0 =>
          \A fd \in Fds :
             (fd # registry_call.fd \/ registry_call.op \notin SubscriptionEditors) =>
                 \A x \in RegistrySymbolIds : is_subscribed(fd, x) <=> WasSubscribed(fd, x)
    /\ \A id \in RegistrySymbolIds :
          get_subscribed_clients(id) = { fd \in Fds : is_subscribed(fd, id) }

\* subscribe(fd, S) was called on an fd that was subscribed to an id that is
\* not in S, with S not empty, and another fd is subscribed to an id of S.
C21_Witness ==
    /\ Called("subscribe")
    /\ registry_call.arg # {}
    /\ \E x \in RegistrySymbolIds :
          WasSubscribed(registry_call.fd, x) /\ x \notin registry_call.arg
    /\ \E id \in registry_call.arg :
          get_subscribed_clients(id) \ {registry_call.fd} # {}

\* subscribe(fd, {}) was called on an fd that had subscriptions.
C21_EmptySetClears ==
    /\ Called("subscribe")
    /\ registry_call.arg = {}
    /\ \E x \in RegistrySymbolIds : WasSubscribed(registry_call.fd, x)

\* The record of fd did not lose in any counter with the last call.
CountersNotLower(fd) ==
    /\ clients_[fd].messages_sent >= registry_call.clients_[fd].messages_sent
    /\ clients_[fd].bytes_sent >= registry_call.clients_[fd].bytes_sent
    /\ clients_[fd].send_errors >= registry_call.clients_[fd].send_errors

\* What update_stats(fd, bytes, success) does to the record of a client.
UpdateStatsCounts ==
    (Called("update_stats") /\ registry_call.fd \in DOMAIN registry_call.clients_) =>
        LET before == registry_call.clients_[registry_call.fd]
            after == clients_[registry_call.fd]
        IN  IF registry_call.success
            THEN /\ after.messages_sent = before.messages_sent + 1
                 /\ after.bytes_sent = before.bytes_sent + registry_call.bytes_sent
                 /\ after.send_errors = before.send_errors
            ELSE /\ after.messages_sent = before.messages_sent
                 /\ after.bytes_sent = before.bytes_sent
                 /\ after.send_errors = before.send_errors + 1

\* C22: update_stats(fd, bytes, true) adds 1 to messages_sent and bytes to
\* bytes_sent and leaves send_errors; update_stats(fd, bytes, false) adds 1
\* to send_errors only; and no registry call other than remove_client, a
\* repeated add_client of the fd included, lowers messages_sent, bytes_sent
\* or send_errors of a client record.
C22_CountersNeverDecrease ==
    /\ UpdateStatsCounts
    /\ (registry_calls > 0 /\ registry_call.op # "remove_client") =>
          \A fd \in DOMAIN registry_call.clients_ :
             fd \in DOMAIN clients_ /\ CountersNotLower(fd)

\* C22 without the repeated add_client: update_stats counts as stated, and
\* no call other than remove_client and add_client lowers a counter.
C22_CountersButAddClient ==
    /\ UpdateStatsCounts
    /\ (registry_calls > 0 /\ registry_call.op \notin {"remove_client", "add_client"}) =>
          \A fd \in DOMAIN registry_call.clients_ :
             fd \in DOMAIN clients_ /\ CountersNotLower(fd)

\* add_client was called on an fd whose record had counted a send and a
\* failure.
C22_RepeatedAdd ==
    /\ Called("add_client")
    /\ registry_call.fd \in DOMAIN registry_call.clients_
    /\ registry_call.clients_[registry_call.fd].messages_sent > 0
    /\ registry_call.clients_[registry_call.fd].send_errors > 0

--------------------------------------------------------------------------
(* ExchangeSimulator, tick engine: properties *)

\* The emissions of one symbol, as positions in emitted.
EmissionsOf(symbol_id) == { k \in 1 .. Len(emitted) : emitted[k].symbol_id = symbol_id }

\* The emission of the same symbol that precedes the k-th one, if any.
Preceding(k) == { h \in EmissionsOf(emitted[k].symbol_id) : h < k }

Last(S) == CHOOSE h \in S : \A g \in S : g <= h

C16_Wrapped ==
    \E k \in 1 .. Len(emitted) : emitted[k].previous = U32Max /\ emitted[k].seq_num = U32(0)

\* C27: with fault injection enabled, the message of a tick that injects a
\* sequence gap has a seq_num exactly 2 greater (modulo 2^32) than the
\* seq_num of the previous message of the same symbol: exactly one sequence
\* number is skipped.
C27_GapSkipsOne ==
    \A k \in 1 .. Len(emitted) :
        (emitted[k].inject /\ Preceding(k) # {}) =>
            emitted[k].seq_num = Add64(emitted[Last(Preceding(k))].seq_num, U32(2))

\* What the code does: the message of a tick that injects a gap has a seq_num
\* 3 greater (modulo 2^32) than that of the symbol's previous message.
C27_GapSkipsTwo ==
    \A k \in 1 .. Len(emitted) :
        (emitted[k].inject /\ Preceding(k) # {}) =>
            emitted[k].seq_num = Add64(emitted[Last(Preceding(k))].seq_num, U32(3))

\* The tick thread is parked in the condition variable, or on its way there
\* after it has read a tick rate of 0.
Parked == tick_thread_.pc \in {"lock", "pred", "block", "wait"}

\* The tick thread is in the part of its loop that generates the ticks.
Generating ==
    tick_thread_.pc \in {"tick", "check", "send", "send2", "close", "erase", "unsubscribe", "sleep"}

\* set_tick_rate(r) with r > 0 has returned while the tick thread is parked
\* or about to park.
RateRaised == Parked /\ running_ /\ tick_rate_ > 0 /\ control.pc = "idle"

\* C17: when the tick thread is parked, or about to park, because the tick
\* rate is 0 and set_tick_rate(r) with r > 0 is called, the tick thread
\* eventually generates ticks again (unless the simulator is stopped or the
\* rate is set back to 0 first), whatever the interleaving.
C17_NoLostWakeup == RateRaised ~> (Generating \/ ~running_ \/ tick_rate_ = 0)

\* A call of stop() is in progress.
Stopping == control.pc \in {"stop_notify", "stop_join", "stop_close"}

\* stop() has returned, and start() has not been called since.
StopReturned == control.stops > 0 /\ control.pc = "idle" /\ ~running_

\* All the ticks of the bound have been generated.
TicksExhausted == Len(emitted) >= MaxTicks

\* C18: stop() eventually returns, from every lifecycle state (within the
\* bound on the ticks); once it has returned the tick thread has exited, and
\* no seq_num changes but by an explicit generate_tick.
C18_StopReturns ==
    /\ Stopping ~> (control.pc = "idle" \/ TicksExhausted)
    /\ [](StopReturned => ~Joinable)
    /\ [][(StopReturned /\ symbols_' # symbols_)
            => control'.explicit = control.explicit + 1]_vars

--------------------------------------------------------------------------
(* ExchangeSimulator, fan-out: properties *)

\* C12: a client receives a message of symbol s only if it has subscribed to
\* s: a client never receives a message of a symbol outside the sets it has
\* asked for, and a client that has not subscribed, or has subscribed to the
\* empty set, receives nothing.
C12_OnlySubscribedSymbols ==
    \A c \in Conns : conns[c].received \subseteq conns[c].asked

\* The tick thread is inside broadcast_message.
Broadcasting == tick_thread_.pc \in {"check", "send", "send2", "close", "erase", "unsubscribe"}

\* C13: after a client has closed its connection, the server eventually
\* closes its socket, with which the fd leaves client_fds_ and loses its
\* subscription entry (within the bound on the ticks).
C13_DisconnectCleansUp ==
    \A c \in Conns :
        (conns[c].closed /\ conns[c].state \in {"queued", "accepted"})
            ~> (conns[c].state = "dropped" \/ TicksExhausted)

C15_SendsAreRecorded ==
    /\ \A fd \in broadcast.blocked :
         get_client_info(fd).is_slow /\ get_client_info(fd).send_errors > 0
    /\ \A fd \in broadcast.ok :
         get_client_info(fd).messages_sent > 0 /\ get_client_info(fd).bytes_sent > 0

--------------------------------------------------------------------------
(* ExchangeSimulator, the subscription messages: properties *)

\* The count a buffer declares, and the ids at its offsets 3 + 2 i.
DeclaredCount(b) == b[2] + 256 * b[3]

DeclaredIds(b) == { b[3 + 2 * i + 1] + 256 * b[3 + 2 * i + 2] : i \in 0 .. DeclaredCount(b) - 1 }

\* What one recv has returned is shorter than 3 bytes, does not start with
\* 0xFF, or declares a count whose length 3 + 2 * count exceeds it.
Rejectable(b) ==
    \/ Len(b) < 3
    \/ b[1] # 255
    \/ 3 + 2 * DeclaredCount(b) > Len(b)

\* The subscription entry of an fd: its set, if it has one.
Entry(fd) == IF fd \in DOMAIN client_subscriptions_ THEN {client_subscriptions_[fd]} ELSE {}

\* The entry a connection must have after the buffers bs were received
\* from it, in this order.
RECURSIVE EntryAfter(_)
EntryAfter(bs) ==
    IF bs = <<>> THEN {}
    ELSE LET b == bs[Len(bs)]
         IN IF Rejectable(b) THEN EntryAfter(SubSeq(bs, 1, Len(bs) - 1))
            ELSE {{ id \in DeclaredIds(b) : id < num_symbols_ }}

Accepted == { c \in Conns : conns[c].state = "accepted" }

\* C23: every subscription set holds only ids below num_symbols, and the
\* set of a client whose last buffer was a message in good form is the ids
\* of that message that are below num_symbols: the others are dropped, the
\* valid ones are applied.
C23_OnlyValidSymbolIds ==
    /\ \A fd \in DOMAIN client_subscriptions_ :
          \A id \in client_subscriptions_[fd] : id \in 0 .. num_symbols_ - 1
    /\ \A c \in Accepted :
          LET bs == conns[c].buffers
          IN (bs # <<>> /\ ~Rejectable(bs[Len(bs)])) =>
                /\ conns[c].fd \in DOMAIN client_subscriptions_
                /\ client_subscriptions_[conns[c].fd] =
                     DeclaredIds(bs[Len(bs)]) \cap (0 .. num_symbols_ - 1)

\* The last buffer of a client held an id that is not valid and one that
\* is, and the client is subscribed to the valid one alone.
C23_Witness ==
    \E c \in Accepted :
        LET bs == conns[c].buffers
        IN /\ bs # <<>>
           /\ ~Rejectable(bs[Len(bs)])
           /\ \E id \in DeclaredIds(bs[Len(bs)]) : id >= num_symbols_
           /\ client_subscriptions_[conns[c].fd] = {num_symbols_ - 1}

\* The last buffer of a client held the id 256 alone, and the client is
\* subscribed to nothing.
C23_HighByte ==
    \E c \in Accepted :
        LET bs == conns[c].buffers
        IN /\ bs # <<>>
           /\ ~Rejectable(bs[Len(bs)])
           /\ DeclaredIds(bs[Len(bs)]) = {256}
           /\ client_subscriptions_[conns[c].fd] = {}

\* C24: what one recv has returned from a client is refused when it is
\* shorter than 3 bytes, does not start with 0xFF or declares a count
\* whose length 3 + 2 * count exceeds the bytes received, and the client's
\* subscription set is then left as it was; a later buffer that is a
\* well-formed message is applied.  So the entry of a connected client is
\* that of its last buffer that is not refused, and it has none if every
\* buffer was refused.
C24_MalformedRejected ==
    \A c \in Accepted : Entry(conns[c].fd) = EntryAfter(conns[c].buffers)

\* A client's first buffer was refused and its second one, a well-formed
\* message with a valid id, has been applied.
C24_Witness ==
    \E c \in Accepted :
        LET bs == conns[c].buffers
        IN /\ Len(bs) = 2
           /\ Rejectable(bs[1])
           /\ ~Rejectable(bs[2])
           /\ client_subscriptions_[conns[c].fd] # {}

\* A client's second buffer was refused and the set its first one gave is
\* still there; each of the three reasons to refuse has been met.
C24_RefusedKeeps ==
    \E c \in Accepted :
        LET bs == conns[c].buffers
        IN /\ Len(bs) = 2
           /\ ~Rejectable(bs[1])
           /\ Rejectable(bs[2])
           /\ Len(bs[2]) >= 3
           /\ bs[2][1] = 255
           /\ Entry(conns[c].fd) = {{num_symbols_ - 1}}

C24_RefusedShort ==
    \E c \in Accepted :
        LET bs == conns[c].buffers
        IN /\ Len(bs) = 2
           /\ Len(bs[2]) < 3
           /\ Entry(conns[c].fd) = {{num_symbols_ - 1}}

C24_RefusedCommand ==
    \E c \in Accepted :
        LET bs == conns[c].buffers
        IN /\ Len(bs) = 2
           /\ Len(bs[2]) >= 3
           /\ bs[2][1] # 255
           /\ Entry(conns[c].fd) = {{num_symbols_ - 1}}

--------------------------------------------------------------------------
(* Properties of run() against the tick thread *)

\* The access to client_fds_ made by the statement the tick thread is at:
\* the copy `auto clients = client_fds_;` of broadcast_message, or the erase
\* of handle_client_disconnect after send() fails with EPIPE.  Neither is
\* made under a mutex.
TickThreadAccess ==
    IF tick_thread_.pc = "tick" THEN "read"
    ELSE IF tick_thread_.pc = "erase" THEN "write"
    ELSE "none"

\* The access to client_fds_ made by the handler of event e: the push_back
\* of handle_new_connection, the erase of handle_client_disconnect.  Neither
\* is made under a mutex.
HandlerAccess(e) ==
    IF e.kind = "listen" THEN "write"
    ELSE IF e.kind = "hup" THEN "write"
    ELSE IF RecvOutcome(e.fd) \in {"EBADF", "ECONNRESET", "eof"} THEN "write"
    ELSE "none"

\* The handlers run() is about to call that add or remove a client.
EventLoopWrites ==
    IF event_loop.pc = "for"
    THEN { e \in event_loop.events : HandlerAccess(e) = "write" }
    ELSE {}

\* C28: the client list is read and edited under the registry lock: in no
\* reachable state is the tick thread at its read or its edit of client_fds_
\* while run() is at a handler that adds or removes a client.
C28_ClientListUnderLock ==
    ~(TickThreadAccess # "none" /\ EventLoopWrites # {})

\* C28, a client being added during a broadcast: the tick thread is at the
\* copy of the list while run() is at the push_back of a new connection.
C28_CopyDuringPushBack ==
    /\ TickThreadAccess = "read"
    /\ \E e \in EventLoopWrites : e.kind = "listen"

\* C28: the tick thread is at the erase of its disconnect path while run()
\* is at a handler that erases too.
C28_EraseDuringErase ==
    /\ TickThreadAccess = "write"
    /\ \E e \in EventLoopWrites : e.kind # "listen"

\* C29: every call of handle_client_disconnect made by run() closes the
\* socket of the connection its event was reported for, which is therefore
\* open at the call: no connection's fd is closed a second time.
C29_ClosedOnce ==
    \A d \in event_loop.disconnects : d.closed = {d.conn}

\* C29: the second close(fd) finds no open descriptor (EBADF).
C29_ClosedTwice ==
    \E d \in event_loop.disconnects : d.closed = {}

\* C29: stop() has not been called, so that the first close was made by the
\* tick thread after EPIPE, and run() has the event of the same disconnect.
C29_BothDetect ==
    /\ control = ControlIdle
    /\ \E d \in event_loop.disconnects : d.closed # {d.conn}

\* C29: stop() has closed the descriptors of client_fds_, and run() calls
\* handle_client_disconnect for an event epoll_wait had returned before.
C29_StopThenDisconnect ==
    /\ control.stops > 0
    /\ broadcast.failed = {}
    /\ \E d \in event_loop.disconnects : d.closed # {d.conn}

\* C29: the second close(fd) closes the socket of another connection, which
\* accept() has given the same descriptor.
C29_ClosesAnother ==
    \E d \in event_loop.disconnects : d.closed # {} /\ d.closed # {d.conn}

\* C29: the first call closed what it was meant to close.
C29_ClosedFirst ==
    \E d \in event_loop.disconnects : d.closed = {d.conn}

--------------------------------------------------------------------------
(* Properties of the price process *)

\* A step that is a call of generate_tick for a symbol of the simulator.
Ticked == Len(emitted') = Len(emitted) + 1

\* What a call of generate_tick(id) does to the symbols.
TickOfSymbol(id) ==
    LET before == symbols_[id]
        after == symbols_'[id]
    IN /\ after.seq_num # before.seq_num
       /\ after.ticks_since_price_update \in 0 .. PRICE_UPDATE_INTERVAL - 1
       /\ IF before.ticks_since_price_update = PRICE_UPDATE_INTERVAL - 1
          THEN after.ticks_since_price_update = 0
          ELSE /\ after.ticks_since_price_update = before.ticks_since_price_update + 1
               /\ after.current_price = before.current_price
       /\ \A other \in ServerSymbolIds \ {id} : symbols_'[other] = symbols_[other]

C31_NinetyNinth ==
    \E h, k \in 1 .. Len(emitted) :
        /\ h < k
        /\ emitted[h].symbol_id = emitted[k].symbol_id
        /\ emitted[h].ticks = PRICE_UPDATE_INTERVAL - 1
        /\ emitted[k].ticks = 0
        /\ emitted[k].price # emitted[h].price

\* The calls of generate_tick that re-sampled the price.
Resampled == { k \in 1 .. Len(emitted) : emitted[k].ticks = 0 }

\* C33: generate_next_price never returns a price under 0.1.
C33_NeverBelowFloor ==
    \A k \in Resampled : emitted[k].price >= PriceFloor

\* C33: what the code ensures: the price returned is not negative.
C33_NeverNegative ==
    \A k \in Resampled : emitted[k].price >= 0

\* C33: a sum under 0 has been replaced by 0.1.
C33_Clamped ==
    \E k \in Resampled : emitted[k].price = PriceFloor /\ emitted[k].normal = -10005

\* C33: a price between 0 and 0.1 has been returned.
C33_BetweenZeroAndFloor ==
    \E k \in Resampled : emitted[k].price > 0 /\ emitted[k].price < PriceFloor

--------------------------------------------------------------------------
(* Properties of the cycles of the tick thread *)

\* The messages the cycle in progress has generated for symbol_id.
CycleTicks(symbol_id) ==
    { k \in EmissionsOf(symbol_id) : k > tick_thread_.start }

\* The tick thread is in a cycle that generates messages.
InCycle == tick_thread_.pc \in {"tick", "sleep"} /\ tick_thread_.rate > 0

\* The cycle has generated all its messages and sleeps.
CycleDone == tick_thread_.pc = "sleep" /\ tick_thread_.rate > 0

AtLeastOne(n) == IF n = 0 THEN 1 ELSE n

C32_Remainder ==
    /\ CycleDone
    /\ tick_thread_.rate > ServerSymbols
    /\ tick_rate_ # tick_thread_.rate

--------------------------------------------------------------------------
(* Properties of the histogram export *)

\* The sum of the counts of the rows written.
RECURSIVE SumCounts(_)
SumCounts(rows) ==
    IF rows = {} THEN 0
    ELSE LET row == CHOOSE r \in rows : TRUE
         IN row[2] + SumCounts(rows \ {row})

\* C34: the counts export_to_csv writes sum to the number of samples the
\* tracker holds, and the export returns false only when the file cannot be
\* written.
C34_ExportCountsSamples ==
    (exported.called /\ exported.returned) => SumCounts(exported.rows) = exported.held

\* C34: what the code does: it writes no row, whatever was recorded.
C34_ExportWritesNoRow ==
    exported.rows = {}

\* C34: an export that returned true with samples in the tracker.
C34_ExportedWithSamples ==
    exported.called /\ exported.returned /\ exported.held > 1

\* C34: an export that returned false.
C34_NotOpened ==
    exported.called /\ ~exported.returned

--------------------------------------------------------------------------
(* Properties of get_stats against concurrent record calls *)

\* get_stats is about to return statistics of at least one sample.
StatsReturned == stats_reader.pc = "ret" /\ stats_reader.num_samples > 0

\* C40: every value get_stats aggregates was passed to record(): the
\* minimum and the maximum it returns are values that were recorded, also
\* when record calls run during the call or have reserved a slot before it.
C40_OnlyRecordedValues ==
    StatsReturned =>
        /\ stats_reader.stats.min \in LatencySamples
        /\ stats_reader.stats.max \in LatencySamples

\* C40, without a record in progress or a reset during the call: the
\* minimum and the maximum are values that were recorded.
C40_QuietOnlyRecordedValues ==
    (StatsReturned /\ stats_reader.quiet) =>
        /\ stats_reader.stats.min \in LatencySamples
        /\ stats_reader.stats.max \in LatencySamples

\* C40: get_stats has read the slot a record call reserved and has not
\* written: the minimum is the 0 the constructor stored.
C40_ReservedSlotRead ==
    /\ StatsReturned
    /\ stats_reader.stats.min = U64(0)
    /\ tracker_resets = 0
    /\ \E t \in RecorderThreads : recorders[t].pc = "store"

\* C40: after reset() and one record call that has reserved its slot,
\* get_stats returns the sample recorded before the reset.
C40_SampleBeforeReset ==
    /\ StatsReturned
    /\ tracker_resets > 0
    /\ recorded = 1
    /\ stats_reader.k = 1
    /\ stats_reader.stats.min # U64(0)
    /\ \E t \in RecorderThreads :
         /\ recorders[t].pc = "store"
         /\ recorders[t].latency_ns # stats_reader.stats.min
    /\ \A t \in RecorderThreads : recorders[t].pc = "idle" \/ recorders[t].idx = 0

--------------------------------------------------------------------------
(* Progress of the readers and of the writer of the cache *)

\* A get_* call of reader r is in progress.
Reading(r) == readers[r].pc \in {"load1", "spin", "read", "load2"}

\* An update_* call is in progress.
Updating == writer.pc # "idle"

\* C35: the writer makes finitely many updates (at most MaxUpdates calls);
\* every get_* call in progress reaches its return, and whatever the readers
\* do, an update in progress can take its next step.
C35_ReadersReturnWriterNeverWaits ==
    /\ \A r \in Readers : Reading(r) ~> (readers[r].pc = "ret")
    /\ [](Updating => ENABLED WriterStep)

\* C35: a call that had to repeat its read, because the writer was active
\* or the sequence changed, is at its return after the last update.
C35_Witness ==
    \E r \in Readers :
        /\ readers[r].pc = "ret"
        /\ readers[r].raced
        /\ readers[r].sym < NumSymbols
        /\ writer.pc = "idle"
        /\ writer.calls = MaxUpdates

--------------------------------------------------------------------------
(* The server and the parser of one client, end to end *)

\* The client whose feed handler runs: it reads its socket and subscribes
\* to both symbols.
FeedClient == "A"

FeedNext ==
    \/ FanoutThreadNext
    \/ TickDisconnectNext
    \/ EventLoopNext
    \/ connect(FeedClient, TRUE)
    \/ client_subscribe(FeedClient, <<0, 1>>)
    \/ client_close(FeedClient)
    \/ receiver_loop(FeedClient)

\* The simulator started and the feed handler's parser constructed, with its
\* handler installed.
FeedInit ==
    /\ FanoutInit
    /\ ParserConstructed
    /\ generic_handler_ = TRUE
    /\ sent = <<>>

InitFeed == FeedInit /\ CacheIdle /\ LatencyIdle /\ RegistryIdle /\ SocketIdle

SpecFeed == InitFeed /\ [][FeedNext]_vars

\* The parser has been passed everything the server wrote to the client.
Consumed(c) == Len(sent) = Len(conns[c].stream)

\* The messages the server emitted for the symbol, oldest first, are numbered
\* consecutively.
GapFree(symbol_id) ==
    \A k \in DOMAIN emitted :
        emitted[k].symbol_id = symbol_id => emitted[k].seq_num = Inc(emitted[k].previous)

\* C36: fault injection off, each symbol numbered without a gap, the client
\* subscribed to both symbols and its parser passed the whole stream: the
\* parser has counted no sequence gap.
C36_NoFalseGaps ==
    (/\ ~fault_injection_enabled_
     /\ \A id \in ServerSymbolIds : GapFree(id)
     /\ conns[FeedClient].asked = ServerSymbolIds
     /\ Consumed(FeedClient))
        => sequence_gaps_ = 0

\* C36: the parser has handled the first message of each of the two symbols,
\* both numbered 1, and nothing else.
C36_FirstOfEachSymbol ==
    /\ ~fault_injection_enabled_
    /\ Consumed(FeedClient)
    /\ Len(handled) = 2
    /\ messages_parsed_ = 2
    /\ checksum_errors_ = 0
    /\ \A k \in 1 .. 2 : emitted[k].seq_num = U32(1) /\ emitted[k].symbol_id = k - 1
    /\ sequence_gaps_ = 1

--------------------------------------------------------------------------
(* Subscription frames and the reads that deliver them *)

\* The bytes are frames in good form, one after the other: the last of
\* them (`last` when no byte is left), or <<>> when they are not.
RECURSIVE LastFrame(_, _)
LastFrame(bytes, last) ==
    IF bytes = <<>> THEN last
    ELSE IF Rejectable(bytes) THEN <<>>
    ELSE LET len == 3 + 2 * DeclaredCount(bytes)
         IN LastFrame(SubSeq(bytes, len + 1, Len(bytes)), SubSeq(bytes, 1, len))

RECURSIVE Joined(_)
Joined(bs) == IF bs = <<>> THEN <<>> ELSE Head(bs) \o Joined(Tail(bs))

\* Everything the client has sent has been read by the server.
AllRead(c) == conns[c].state = "accepted" /\ conns[c].inbox = <<>> /\ ~conns[c].edge

\* C39: the server has read all the bytes of a client and they are frames
\* in good form: the client's set is the valid ids of the last frame,
\* whatever the reads were that returned the bytes.
C39_LastFrameApplies ==
    \A c \in Conns :
        LET frame == LastFrame(Joined(conns[c].buffers), <<>>)
        IN (AllRead(c) /\ frame # <<>>) =>
              Entry(conns[c].fd) = {{ id \in DeclaredIds(frame) : id < num_symbols_ }}

\* C39: two frames came in one read, and the set is that of the first.
C39_Coalesced ==
    /\ AllRead("A")
    /\ conns["A"].buffers = <<FirstFrame \o SecondFrame>>
    /\ Entry(conns["A"].fd) = {{0}}

\* C39: a frame came in two reads, and the client has no set.
C39_Split ==
    /\ AllRead("A")
    /\ conns["A"].buffers = <<SubSeq(SecondFrame, 1, 3), SubSeq(SecondFrame, 4, 5)>>
    /\ Entry(conns["A"].fd) = {}

\* C39: a frame longer than the buffer, then a frame for the first symbol:
\* the reads returned 1024 bytes and the rest, and the client has no set.
C39_LongFrame ==
    /\ AllRead("A")
    /\ Len(conns["A"].buffers) = 2
    /\ Len(conns["A"].buffers[1]) = RecvBufferSize
    /\ Joined(conns["A"].buffers) = LongFrame \o FirstFrame
    /\ Entry(conns["A"].fd) = {}

\* C39: each frame came in a read of its own, and the last one applies.
C39_OneFramePerRead ==
    /\ AllRead("A")
    /\ conns["A"].buffers = <<FirstFrame, SecondFrame>>
    /\ Entry(conns["A"].fd) = {{1}}

--------------------------------------------------------------------------
(* A descriptor that is given to a newer connection *)

\* C37: when the disconnect handling that the tick thread runs for a
\* connection erases the subscriptions kept for the descriptor, the
\* descriptor is not held by another connection whose frame has set them.
C37_OnlyOwnDisconnect ==
    \A d \in tick_thread_.erased : d.holder \subseteq {d.conn} \/ ~d.own

\* C37: the newer connection is still open, accepted under the descriptor
\* of the earlier one; its frame asked for both symbols and was handled, and
\* the server keeps no subscription for it.
C37_NewerConnectionUnsubscribed ==
    \E d \in tick_thread_.erased : \E b \in d.holder :
        /\ b # d.conn
        /\ d.own
        /\ conns[b].state = "accepted"
        /\ ~conns[b].closed
        /\ conns[b].inbox = <<>>
        /\ conns[b].buffers = <<SubscriptionMessage(<<0, 1>>)>>
        /\ conns[b].fd \notin DOMAIN client_subscriptions_

\* C37: the tick thread has run the disconnect handling of a connection
\* whose descriptor nobody else held.
C37_OwnDisconnect ==
    \E d \in tick_thread_.erased : d.holder = {}

--------------------------------------------------------------------------
(* The bytes the server writes to one client *)

\* The pieces are the bytes of complete messages, one after the other: a
\* message sent whole and taken whole, or its first half followed by its
\* second half, both taken whole.
RECURSIVE WholeMessages(_)
WholeMessages(q) ==
    IF q = <<>> THEN TRUE
    ELSE IF Head(q).part = "whole" THEN Head(q).all /\ WholeMessages(Tail(q))
    ELSE /\ Head(q).part = "first"
         /\ Head(q).all
         /\ Len(q) >= 2
         /\ q[2] = [tick |-> Head(q).tick, part |-> "second", all |-> TRUE]
         /\ WholeMessages(Tail(Tail(q)))

\* The stream of connection c, without the first half whose second half the
\* tick thread is about to send.
Settled(c) ==
    LET q == conns[c].stream
    IN IF /\ tick_thread_.pc = "send2"
          /\ Holders(tick_thread_.fd) = {c}
          /\ q # <<>>
          /\ q[Len(q)] = [tick |-> Len(emitted), part |-> "first", all |-> TRUE]
       THEN SubSeq(q, 1, Len(q) - 1)
       ELSE q

\* C38: what a client has been written is a concatenation of complete
\* messages, whatever the sends returned and whether or not a message was
\* sent as two halves.
C38_WholeMessagesOnly == \A c \in Conns : WholeMessages(Settled(c))

\* C38: with fault injection off, a send took only a part of a message.
C38_PartialSend ==
    /\ ~fault_injection_enabled_
    /\ \E c \in Conns : \E k \in DOMAIN conns[c].stream :
         conns[c].stream[k].part = "whole" /\ ~conns[c].stream[k].all

\* C38: the first half of a message was taken, the second half was not, and
\* the broadcast has gone on.
C38_SecondHalfFails ==
    /\ tick_thread_.pc # "send2"
    /\ \E c \in Conns :
         LET q == conns[c].stream
         IN /\ q # <<>>
            /\ q[Len(q)].part = "first"
            /\ q[Len(q)].all
====
